---- MODULE Spec2Model ----
(***************************************************************************)
(* Model of ContentExtraction (ai-tax-management-system, usecase/          *)
(* content_extraction.py): the folder processor, the analysis poller, the  *)
(* tax-invoice page accumulator (specification Spec), the reconciliation   *)
(* matcher (specification SpecRecon), process_message, which runs a batch, *)
(* the matcher and the status update (specification SpecMessage), and two  *)
(* batches running as concurrent tasks (specification SpecBatches).        *)
(*                                                                         *)
(* Texts and blob names are sequences of one-character strings, so that    *)
(* splitting, joining and regular-expression search are computed and not   *)
(* assumed.  One action runs the code from one suspension point (await)    *)
(* to the next.                                                            *)
(***************************************************************************)
EXTENDS Integers, Sequences, FiniteSets, TLC

(***************************************************************************)
(* Bounds of the model.                                                    *)
(***************************************************************************)
\* largest number of blobs list_files returns for one folder
MaxFiles == 3
\* the max_retries argument of _wait_for_analysis_result (35 by default)
max_retries == 2

(***************************************************************************)
(* Characters.                                                             *)
(***************************************************************************)
Digits == {"0", "1", "2", "3", "4", "5", "6", "7", "8", "9"}

\* code points of the characters the model uses (Python compares str by code point)
Ord(c) ==
    CASE c = "\n" -> 10
      [] c = " " -> 32
      [] c = "-" -> 45
      [] c = "." -> 46
      [] c = "0" -> 48
      [] c = "1" -> 49
      [] c = "2" -> 50
      [] c = "3" -> 51
      [] c = "4" -> 52
      [] c = "5" -> 53
      [] c = "6" -> 54
      [] c = "7" -> 55
      [] c = "8" -> 56
      [] c = "9" -> 57
      [] c = "A" -> 65
      [] c = "B" -> 66
      [] c = "C" -> 67
      [] c = "D" -> 68
      [] c = "E" -> 69
      [] c = "F" -> 70
      [] c = "G" -> 71
      [] c = "K" -> 75
      [] c = "N" -> 78
      [] c = "P" -> 80
      [] c = "R" -> 82
      [] c = "X" -> 88
      [] c = "_" -> 95
      [] c = "d" -> 100
      [] c = "f" -> 102
      [] c = "g" -> 103
      [] c = "n" -> 110
      [] c = "p" -> 112
      [] c = "t" -> 116
      [] c = "x" -> 120

\* str.lower() on the characters of the model
LowerChar(c) ==
    CASE c = "A" -> "a"
      [] c = "B" -> "b"
      [] c = "C" -> "c"
      [] c = "D" -> "d"
      [] c = "E" -> "e"
      [] c = "F" -> "f"
      [] c = "G" -> "g"
      [] c = "K" -> "k"
      [] c = "N" -> "n"
      [] c = "P" -> "p"
      [] c = "R" -> "r"
      [] OTHER -> c

DigitVal(c) == Ord(c) - 48

\* int(part) for a run of decimal digits
RECURSIVE IntOf(_)
IntOf(s) ==
    IF s = <<>> THEN 0
    ELSE 10 * IntOf(SubSeq(s, 1, Len(s) - 1)) + DigitVal(s[Len(s)])

\* str < str in Python: by code point, a proper prefix is smaller
RECURSIVE StrLess(_, _)
StrLess(a, b) ==
    IF b = <<>> THEN FALSE
    ELSE IF a = <<>> THEN TRUE
    ELSE IF a[1] # b[1] THEN Ord(a[1]) < Ord(b[1])
    ELSE StrLess(Tail(a), Tail(b))

IsWordChar(c) == Ord(c) \in (48..57) \cup (65..90) \cup (97..122) \cup {95}

IsSpace(c) == c \in {" ", "\n"}

(***************************************************************************)
(* natural_sort_key and sorted(files, key=natural_sort_key).               *)
(***************************************************************************)
\* number of leading characters of s that are (isDigit = TRUE) or are not digits
RECURSIVE RunLen(_, _)
RunLen(s, isDigit) ==
    IF s = <<>> \/ ((s[1] \in Digits) # isDigit) THEN 0
    ELSE 1 + RunLen(Tail(s), isDigit)

\* re.split(r'(\d+)', s): text, digits, text, ..., text (texts may be empty)
RECURSIVE ReSplit(_)
ReSplit(s) ==
    LET n == RunLen(s, FALSE)
        rest == SubSeq(s, n + 1, Len(s))
        d == RunLen(rest, TRUE)
    IN  IF rest = <<>> THEN << SubSeq(s, 1, n) >>
        ELSE << SubSeq(s, 1, n), SubSeq(rest, 1, d) >>
                 \o ReSplit(SubSeq(rest, d + 1, Len(rest)))

\* str.isdigit()
IsDigitStr(s) == s # <<>> /\ \A i \in 1..Len(s) : s[i] \in Digits

\* a key that keeps digit runs as text
KeyPart_TextOnly(part) == [tag |-> 1, num |-> 0, str |-> part]

\* (0, int(part)) for a digit run, (1, part) otherwise
KeyPart(part) ==
    IF IsDigitStr(part) THEN [tag |-> 0, num |-> IntOf(part), str |-> <<>>]
    ELSE [tag |-> 1, num |-> 0, str |-> part]

natural_sort_key(f) ==
    LET parts == ReSplit(f.blob_name)
    IN  [i \in 1..Len(parts) |-> KeyPart(parts[i])]

\* tuple < tuple
PartLess(p, q) ==
    IF p.tag # q.tag THEN p.tag < q.tag
    ELSE IF p.tag = 0 THEN p.num < q.num
    ELSE StrLess(p.str, q.str)

\* list < list
RECURSIVE KeyLess(_, _)
KeyLess(k1, k2) ==
    IF k2 = <<>> THEN FALSE
    ELSE IF k1 = <<>> THEN TRUE
    ELSE IF k1[1] # k2[1] THEN PartLess(k1[1], k2[1])
    ELSE KeyLess(Tail(k1), Tail(k2))

\* one step of a stable sort: x goes before the first element with a larger key
RECURSIVE InsertByKey(_, _)
InsertByKey(sortedSeq, x) ==
    IF sortedSeq = <<>> THEN << x >>
    ELSE IF KeyLess(natural_sort_key(x), natural_sort_key(sortedSeq[1]))
         THEN << x >> \o sortedSeq
    ELSE << sortedSeq[1] >> \o InsertByKey(Tail(sortedSeq), x)

\* sorted(files, key=natural_sort_key): stable
RECURSIVE SortedFiles(_)
SortedFiles(fs) ==
    IF fs = <<>> THEN <<>>
    ELSE InsertByKey(SortedFiles(SubSeq(fs, 1, Len(fs) - 1)), fs[Len(fs)])

(***************************************************************************)
(* The extension allowlist.                                                *)
(***************************************************************************)
SUPPORTED_EXTENSIONS ==
    { <<"p", "d", "f">>, <<"j", "p", "g">>, <<"j", "p", "e", "g">>,
      <<"p", "n", "g">>, <<"t", "i", "f", "f">>, <<"b", "m", "p">> }

\* blob_name.rsplit('.', 1)[-1].lower() if '.' in blob_name else ''
file_extension(blob_name) ==
    LET dots == {i \in 1..Len(blob_name) : blob_name[i] = "."}
    IN  IF dots = {} THEN <<>>
        ELSE LET last == CHOOSE i \in dots : \A j \in dots : j <= i
                 ext == SubSeq(blob_name, last + 1, Len(blob_name))
             IN  [i \in 1..Len(ext) |-> LowerChar(ext[i])]

(***************************************************************************)
(* _extract_urn_from_content: re.search(r'\b\d{10,}\b', content.strip()).  *)
(***************************************************************************)
MinUrnDigits == 10

NoUrn == <<>>

\* str.strip()
RECURSIVE LStrip(_)
LStrip(s) == IF s # <<>> /\ IsSpace(s[1]) THEN LStrip(Tail(s)) ELSE s

RECURSIVE RStrip(_)
RStrip(s) ==
    IF s # <<>> /\ IsSpace(s[Len(s)]) THEN RStrip(SubSeq(s, 1, Len(s) - 1)) ELSE s

Strip(s) == RStrip(LStrip(s))

\* the pattern matches at i: a word boundary, at least ten digits, a word boundary
UrnMatchAt(s, i) ==
    LET run == RunLen(SubSeq(s, i, Len(s)), TRUE)
    IN  /\ s[i] \in Digits
        /\ (i = 1 \/ ~IsWordChar(s[i - 1]))
        /\ run >= MinUrnDigits
        /\ (i + run > Len(s) \/ ~IsWordChar(s[i + run]))

_extract_urn_from_content(content) ==
    LET s == Strip(content)
        hits == {i \in 1..Len(s) : UrnMatchAt(s, i)}
    IN  IF hits = {} THEN NoUrn
        ELSE LET i == CHOOSE h \in hits : \A k \in hits : h <= k
             IN  SubSeq(s, i, i + RunLen(SubSeq(s, i, Len(s)), TRUE) - 1)

(***************************************************************************)
(* "\n\n--- PAGE BREAK ---\n\n".join(accumulated_content)                  *)
(***************************************************************************)
PAGE_BREAK ==
    << "\n", "\n", "-", "-", "-", " ", "P", "A", "G", "E", " ",
       "B", "R", "E", "A", "K", " ", "-", "-", "-", "\n", "\n" >>

RECURSIVE JoinPages(_)
JoinPages(pages) ==
    IF pages = <<>> THEN <<>>
    ELSE IF Len(pages) = 1 THEN pages[1]
    ELSE pages[1] \o PAGE_BREAK \o JoinPages(Tail(pages))

(***************************************************************************)
(* The blobs a folder can hold: name, URL, and the markdown the analyzer   *)
(* returns for the blob.  A URL of "" is a listing entry without "url".    *)
(***************************************************************************)
FilePool ==
    { [blob_name |-> <<"p", "1", ".", "p", "d", "f">>, url |-> "u1",
       markdown |-> <<"1", "2", "3", "4", "5", "6", "7", "8", "9", "0", " ", "A">>],
      [blob_name |-> <<"p", "2", ".", "p", "d", "f">>, url |-> "u2",
       markdown |-> <<"B">>],
      [blob_name |-> <<"p", "1", "0", ".", "p", "d", "f">>, url |-> "u10",
       markdown |-> <<"C", "_", "1", "2", "3", "4", "5", "6", "7", "8", "9", "0">>],
      [blob_name |-> <<"g", ".", "P", "N", "G">>, url |-> "ug",
       markdown |-> <<"\n", "D", " ", "9", "8", "7", "6", "5", "4", "3", "2", "1", "0", "9", "\n">>],
      [blob_name |-> <<"n", ".", "t", "x", "t">>, url |-> "un",
       markdown |-> <<"N">>],
      [blob_name |-> <<"p", "0", "3">>, url |-> "u3",
       markdown |-> <<"E">>],
      [blob_name |-> <<"x", ".", "p", "d", "f">>, url |-> "",
       markdown |-> <<"X">>] }

\* every order in which list_files can return at most MaxFiles blobs of the pool
Listings ==
    UNION { { l \in [1..n -> FilePool] : \A i, j \in 1..n : i # j => l[i] # l[j] }
            : n \in 0..MaxFiles }

(***************************************************************************)
(* Values.                                                                 *)
(***************************************************************************)
ContentType == {"Invoice", "TaxInvoice", "GeneralLedger", "Unknown"}

\* what get_analyzer_results can answer; "Queued" stands for any other status
PollStatus == {"Succeeded", "Failed", "AnalyzeError", "Running", "Queued"}

NoDoc == [merged |-> FALSE, sources |-> <<>>]

\* a blob's own URL
SourceDoc(url) == [merged |-> FALSE, sources |-> <<url>>]

\* the URL upload_file returns for the PDF merged from file_urls
MergedDoc(file_urls) == [merged |-> TRUE, sources |-> file_urls]

NoResult ==
    [shape |-> "none", urn |-> NoUrn, id |-> 0, documentUrl |-> NoDoc,
     total_pages |-> 0, text |-> <<>>]

\* the analyzer's result dictionary (status Succeeded), returned as it is
RawResult(markdown) == [NoResult EXCEPT !.shape = "analysis", !.text = markdown]

UnknownResult == [NoResult EXCEPT !.shape = "unknown"]

ErrorEntry(f, msg) ==
    [blob_name |-> f.blob_name, file_url |-> f.url, kind |-> "error",
     error |-> msg, request_id |-> 0, analysis_result |-> NoResult]

ResultEntry(f, rid, res) ==
    [blob_name |-> f.blob_name, file_url |-> f.url, kind |-> "analysis_result",
     error |-> "", request_id |-> rid, analysis_result |-> res]

\* str(e) of the exception raised for a terminal failure status
FailedMessage(st) ==
    IF st = "Failed" THEN "Analysis failed with status: Failed"
    ELSE "Analysis failed with status: AnalyzeError"

(***************************************************************************)
(* State.                                                                  *)
(***************************************************************************)
VARIABLES
    pc,                               \* where process_documents_in_folder is
    llm_service_repo,                 \* TRUE when the instance has an LLM service
    azure_cosmos_repo,                \* TRUE when the instance has a document store
    files,                            \* what list_files returned, then sorted
    idx,                              \* position of the for loop in files
    request_id,                       \* job handle of the current file
    retry_count,                      \* of _wait_for_analysis_result
    status,                           \* the status the latest query was answered with
    content,                          \* markdown of the current file
    urn,                              \* URN found in content
    is_document_complete,             \* the flag of the classification
    merged_content,                   \* text of the completed tax invoice
    merged_pdf_url,                   \* its document reference
    accumulated_tax_invoice_content,  \* page texts of the pending tax invoice
    accumulated_tax_invoice_urls,     \* their source references
    analysis_results,                 \* the outcome list
    db,                               \* documents created in the document store
    uuid_count,                       \* identifiers generated so far
    jobs,                             \* analysis jobs accepted so far
    calls,                            \* collaborator calls completed in the current
                                      \* (or latest) iteration of the for loop
    flushes,                          \* every call of get_tax_invoice_extraction
    submitted,                        \* blob names passed to analyze_invoice, in order
    embedding_repo,                   \* TRUE when the instance has an embedding service
    tax_invoices,                     \* the tax invoices queried for the URN
    gl_transactions,                  \* the GL transactions queried for the URN
    ti,                               \* position of "for tax_invoice in tax_invoices"
    di,                               \* position of "for detail in tax_invoice_details"
    embedded,                         \* positions get_embedding_result was called for
    searches,                         \* the vector_search calls for the latest item
    document_id,                      \* message.get("document_id"), 0 when missing
    message_urn,                      \* the urn local of process_message
    upload,                           \* the document of the message in "uploads"
    batches                           \* concurrent process_documents_in_folder calls

vars ==
    << pc, llm_service_repo, azure_cosmos_repo, files, idx, request_id, retry_count, status,
       content, urn, is_document_complete, merged_content, merged_pdf_url,
       accumulated_tax_invoice_content,
       accumulated_tax_invoice_urls, analysis_results, db, uuid_count, jobs,
       calls, flushes, submitted, embedding_repo, tax_invoices, gl_transactions,
       ti, di, embedded, searches, document_id, message_urn, upload, batches >>

\* the state of reconciliation_process
recon == << embedding_repo, tax_invoices, gl_transactions, ti, di, embedded, searches >>

\* the state of process_message
message == << document_id, message_urn, upload >>

\* the upload document before process_message updates it
NoUpload == [urn |-> NoUrn, status |-> "processing"]

locals ==
    << request_id, retry_count, content, urn, is_document_complete, merged_content,
       merged_pdf_url >>

acc == << accumulated_tax_invoice_content, accumulated_tax_invoice_urls >>

Init ==
    /\ pc = "start"
    /\ llm_service_repo \in BOOLEAN
    /\ azure_cosmos_repo \in BOOLEAN
    /\ files \in Listings
    /\ idx = 0
    /\ request_id = 0
    /\ retry_count = 0
    /\ status = "none"
    /\ content = <<>>
    /\ urn = NoUrn
    /\ is_document_complete = TRUE
    /\ merged_content = <<>>
    /\ merged_pdf_url = NoDoc
    /\ accumulated_tax_invoice_content = <<>>
    /\ accumulated_tax_invoice_urls = <<>>
    /\ analysis_results = <<>>
    /\ db = <<>>
    /\ uuid_count = 0
    /\ jobs = 0
    /\ calls = <<>>
    /\ flushes = <<>>
    /\ submitted = <<>>
    /\ embedding_repo = FALSE         \* not read by process_documents_in_folder
    /\ tax_invoices = << >>
    /\ gl_transactions = << >>
    /\ ti = 0
    /\ di = 0
    /\ embedded = << >>
    /\ searches = << >>
    /\ document_id = 0
    /\ message_urn = NoUrn
    /\ upload = NoUpload
    /\ batches = << >>

\* the file the for loop is at
file_info == files[idx]

\* a collaborator call and how it ended
Call(name, outcome) == << name, outcome >>

\* the locals of _wait_for_analysis_result die when it returns or raises
ResetLocals ==
    /\ request_id' = 0
    /\ retry_count' = 0
    /\ content' = <<>>
    /\ urn' = NoUrn
    /\ is_document_complete' = TRUE
    /\ merged_content' = <<>>
    /\ merged_pdf_url' = NoDoc

\* an outcome list that puts the newest outcome first
AppendOutcome_NewestFirst(results, entries) == entries \o results

\* analysis_results.append({...}): at most one entry an iteration
AppendOutcome(results, entries) == results \o entries

\* a loop whose error outcomes end the batch: the exception leaves the for loop
NextFile_ErrorAborts(entries) ==
    /\ analysis_results' = AppendOutcome(analysis_results, entries)
    /\ idx' = idx + 1
    /\ pc' = IF entries # << >> /\ entries[1].kind = "error" THEN "raised" ELSE "loop"
    /\ ResetLocals

\* the for loop moves to the next file, after appending the entries (0 or 1)
NextFile(entries) ==
    /\ analysis_results' = AppendOutcome(analysis_results, entries)
    /\ idx' = idx + 1
    /\ pc' = "loop"
    /\ ResetLocals

config == << llm_service_repo, azure_cosmos_repo, files >>

\* handlers that empty the accumulated lists when a file fails
AccumulatedAfterError_Cleared(pages) == << >>

\* the except handlers of the for loop append an error entry and do nothing else
AccumulatedAfterError(pages) == pages

\* except TimeoutError / except Exception, and the entry for a missing request id
FileFails(msg) ==
    /\ NextFile(<< ErrorEntry(file_info, msg) >>)
    /\ accumulated_tax_invoice_content' = AccumulatedAfterError(accumulated_tax_invoice_content)
    /\ accumulated_tax_invoice_urls' = AccumulatedAfterError(accumulated_tax_invoice_urls)

(***************************************************************************)
(* Decisions of the code, one operator each.                               *)
(***************************************************************************)
\* while retry_count < max_retries
BudgetLeft(rc) == rc < max_retries

\* a poller that takes only "Failed" for a failure
IsFailureStatus_FailedOnly(st) == st = "Failed"

\* elif status in ["Failed", "AnalyzeError"]
IsFailureStatus(st) == st \in {"Failed", "AnalyzeError"}

\* a poller that counts only "Running" answers
NextRetryCount_RunningOnly(st, rc) == IF st = "Running" THEN rc + 1 ELSE rc

\* retry_count += 1, in the "Running" branch and in the branch of every other status
NextRetryCount(st, rc) == rc + 1

\* an allowlist that lets every name with an extension through
IsSupported_AnyExtension(f) == file_extension(f.blob_name) # <<>>

\* if file_extension not in SUPPORTED_EXTENSIONS
IsSupported(f) == file_extension(f.blob_name) \in SUPPORTED_EXTENSIONS

\* an accumulator that keeps only the newest page
AddPage_KeepNewest(pages, page) == << page >>

\* accumulated_content.append(content) / accumulated_file_urls.append(file_url)
AddPage(pages, page) == Append(pages, page)

\* a merge that also runs for a single page
NeedsMerge_SinglePageToo(file_urls) == Len(file_urls) >= 1

\* if len(accumulated_file_urls) > 1
NeedsMerge(file_urls) == Len(file_urls) > 1

\* a fallback to the first page's URL
MergedPdfUrl_FirstPage(file_urls, file_url, merge_ok) ==
    IF NeedsMerge(file_urls) /\ merge_ok THEN MergedDoc(file_urls)
    ELSE SourceDoc(file_urls[1])

\* merged_pdf_url: the merged PDF, or the last page's URL when there is one page
\* or when _merge_pdfs_from_urls raised
MergedPdfUrl(file_urls, file_url, merge_ok) ==
    IF NeedsMerge(file_urls) /\ merge_ok THEN MergedDoc(file_urls)
    ELSE SourceDoc(file_url)

\* a store that is written whether or not a URN was found
ShouldPersist_WithoutUrn(cosmos, u) == cosmos

\* if self.azure_cosmos_repo and urn
ShouldPersist(cosmos, u) == cosmos /\ u # NoUrn

\* a loop that reports a page waiting for the rest of its document as an error
PendingOutcome_Reported(f) == << ErrorEntry(f, "Tax invoice incomplete") >>

\* if analysis_result is None: continue
PendingOutcome(f) == << >>

\* a poller that holds back every page whose document is not complete
WaitsForMorePages_AnyType(content_type, complete) == ~complete

\* if not is_document_complete, read in the TaxInvoice branch only
WaitsForMorePages(content_type, complete) == content_type = "TaxInvoice" /\ ~complete

\* a page count that counts the completing page only
total_pages_CurrentPageOnly(pages) == 1

\* result['total_pages'] = len(accumulated_content)
total_pages(pages) == Len(pages)

(***************************************************************************)
(* process_documents_in_folder: listing, sorting, the for loop.            *)
(***************************************************************************)
\* list_files raises: the outer except re-raises
ListFilesFails ==
    /\ pc = "start"
    /\ pc' = "raised"
    /\ files' = <<>>
    /\ UNCHANGED << llm_service_repo, azure_cosmos_repo, idx, locals, acc,
                    analysis_results, db, uuid_count, jobs, calls, flushes,
                    submitted, status >>
    /\ UNCHANGED << recon, message, batches >>

\* files = sorted(files, key=natural_sort_key)
SortFiles ==
    /\ pc = "start"
    /\ files' = SortedFiles(files)
    /\ idx' = 1
    /\ pc' = "loop"
    /\ UNCHANGED << llm_service_repo, azure_cosmos_repo, locals, acc,
                    analysis_results, db, uuid_count, jobs, calls, flushes,
                    submitted, status >>
    /\ UNCHANGED << recon, message, batches >>

\* a loop that takes up a file while the poller of the one before it sleeps
AtFile_WhileSleeping == pc \in {"loop", "sleep"} /\ idx <= Len(files)

AtFile == pc = "loop" /\ idx <= Len(files)

\* if not file_url: continue
SkipNoUrl ==
    /\ AtFile
    /\ file_info.url = ""
    /\ idx' = idx + 1
    /\ calls' = << >>
    /\ status' = "none"
    /\ UNCHANGED << pc, config, locals, acc, analysis_results, db, uuid_count,
                    jobs, flushes, submitted >>
    /\ UNCHANGED << recon, message, batches >>

\* if file_extension not in SUPPORTED_EXTENSIONS: continue
SkipUnsupported ==
    /\ AtFile
    /\ file_info.url # ""
    /\ ~IsSupported(file_info)
    /\ idx' = idx + 1
    /\ calls' = << >>
    /\ status' = "none"
    /\ UNCHANGED << pc, config, locals, acc, analysis_results, db, uuid_count,
                    jobs, flushes, submitted >>
    /\ UNCHANGED << recon, message, batches >>

Analyzable == AtFile /\ file_info.url # "" /\ IsSupported(file_info)

\* analyze_invoice raises: except Exception appends an error entry
SubmitRaises ==
    /\ Analyzable
    /\ submitted' = Append(submitted, file_info.blob_name)
    /\ calls' = << Call("analyze_invoice", "raised") >>
    /\ FileFails("analyze_invoice raised")
    /\ status' = "none"
    /\ UNCHANGED << config, db, uuid_count, jobs, flushes >>
    /\ UNCHANGED << recon, message, batches >>

\* if not request_id: append an error entry, continue
SubmitNoRequestId ==
    /\ Analyzable
    /\ submitted' = Append(submitted, file_info.blob_name)
    /\ calls' = << Call("analyze_invoice", "no id") >>
    /\ FileFails("No request ID returned from analyzer")
    /\ status' = "none"
    /\ UNCHANGED << config, db, uuid_count, jobs, flushes >>
    /\ UNCHANGED << recon, message, batches >>

\* the analyzer accepts the job; _wait_for_analysis_result starts
SubmitOk ==
    /\ Analyzable
    /\ submitted' = Append(submitted, file_info.blob_name)
    /\ calls' = << Call("analyze_invoice", "id") >>
    /\ jobs' = jobs + 1
    /\ request_id' = jobs + 1
    /\ retry_count' = 0
    /\ pc' = "poll"
    /\ status' = "none"
    /\ UNCHANGED << config, idx, content, urn, is_document_complete, merged_content,
                    merged_pdf_url, acc, analysis_results, db, uuid_count, flushes >>
    /\ UNCHANGED << recon, message, batches >>

\* the for loop is over: return analysis_results
ReturnResults ==
    /\ pc = "loop"
    /\ idx > Len(files)
    /\ pc' = "returned"
    /\ UNCHANGED << config, idx, locals, acc, analysis_results, db, uuid_count,
                    jobs, calls, flushes,
                    submitted, status >>
    /\ UNCHANGED << recon, message, batches >>

(***************************************************************************)
(* _wait_for_analysis_result: the polling loop.                            *)
(***************************************************************************)
\* the while condition fails: raise TimeoutError, caught by except TimeoutError
PollTimeout ==
    /\ pc = "poll"
    /\ ~BudgetLeft(retry_count)
    /\ FileFails("Timeout")
    /\ UNCHANGED << config, db, uuid_count, jobs, calls, flushes,
                    submitted, status >>
    /\ UNCHANGED << recon, message, batches >>

\* get_analyzer_results raises: re-raised, caught by except Exception
PollRaises ==
    /\ pc = "poll"
    /\ BudgetLeft(retry_count)
    /\ calls' = Append(calls, Call("get_analyzer_results", "raised"))
    /\ FileFails("get_analyzer_results raised")
    /\ UNCHANGED << config, db, uuid_count, jobs, flushes,
                    submitted, status >>
    /\ UNCHANGED << recon, message, batches >>

\* status Failed or AnalyzeError: raise Exception, caught by except Exception
PollFailed ==
    /\ pc = "poll"
    /\ BudgetLeft(retry_count)
    /\ \E s \in PollStatus :
          /\ IsFailureStatus(s)
          /\ status' = s
          /\ calls' = Append(calls, Call("get_analyzer_results", s))
          /\ FileFails(FailedMessage(s))
    /\ UNCHANGED << config, db, uuid_count, jobs, flushes, submitted >>
    /\ UNCHANGED << recon, message, batches >>

\* status Running or unrecognized: retry_count += 1, await asyncio.sleep
PollNotReady ==
    /\ pc = "poll"
    /\ BudgetLeft(retry_count)
    /\ \E s \in PollStatus :
          /\ s # "Succeeded"
          /\ ~IsFailureStatus(s)
          /\ status' = s
          /\ retry_count' = NextRetryCount(s, retry_count)
          /\ calls' = Append(calls, Call("get_analyzer_results", "not ready"))
    /\ pc' = "sleep"
    /\ UNCHANGED << config, idx, request_id, content, urn, is_document_complete,
                    merged_content, merged_pdf_url, acc, analysis_results, db, uuid_count, jobs,
                    flushes, submitted >>
    /\ UNCHANGED << recon, message, batches >>

\* asyncio.sleep returns: back to the while condition
Wake ==
    /\ pc = "sleep"
    /\ calls' = Append(calls, Call("sleep", "done"))
    /\ pc' = "poll"
    /\ UNCHANGED << config, idx, locals, acc, analysis_results, db, uuid_count,
                    jobs, flushes,
                    submitted, status >>
    /\ UNCHANGED << recon, message, batches >>

\* handlers that catch the cancellation as they catch a failure
CaughtByExceptException_BaseExceptionToo(exception) == TRUE

\* except Exception: asyncio.CancelledError derives from BaseException and is
\* not caught
CaughtByExceptException(exception) == exception # "CancelledError"

\* the task is cancelled while it awaits asyncio.sleep: CancelledError is
\* raised at the await and leaves every except Exception and the
\* except TimeoutError on its way out behind
Cancelled ==
    /\ pc = "sleep"
    /\ IF CaughtByExceptException("CancelledError")
       THEN /\ FileFails("CancelledError")
            /\ UNCHANGED calls
       ELSE /\ pc' = "cancelled"
            /\ UNCHANGED << idx, locals, acc, analysis_results, calls >>
    /\ UNCHANGED << config, db, uuid_count, jobs, flushes, submitted, status >>
    /\ UNCHANGED << recon, message, batches >>

\* status Succeeded without an LLM service: return the analyzer's result
PollSucceededNoLlm ==
    /\ pc = "poll"
    /\ BudgetLeft(retry_count)
    /\ ~llm_service_repo
    /\ calls' = Append(calls, Call("get_analyzer_results", "Succeeded"))
    /\ NextFile(<< ResultEntry(file_info, request_id, RawResult(file_info.markdown)) >>)
    /\ status' = "Succeeded"
    /\ UNCHANGED << config, acc, db, uuid_count, jobs, flushes, submitted >>
    /\ UNCHANGED << recon, message, batches >>

\* status Succeeded: read the markdown, find the URN, await the classification
PollSucceeded ==
    /\ pc = "poll"
    /\ BudgetLeft(retry_count)
    /\ llm_service_repo
    /\ content' = file_info.markdown
    /\ urn' = _extract_urn_from_content(file_info.markdown)
    /\ calls' = Append(calls, Call("get_analyzer_results", "Succeeded"))
    /\ pc' = "classify"
    /\ status' = "Succeeded"
    /\ UNCHANGED << config, idx, request_id, retry_count, is_document_complete,
                    merged_content, merged_pdf_url, acc, analysis_results, db, uuid_count, jobs,
                    flushes, submitted >>
    /\ UNCHANGED << recon, message, batches >>

(***************************************************************************)
(* _wait_for_analysis_result: classification and extraction.               *)
(***************************************************************************)
\* an inner except that reports the failure as the file's error
RawEntry_AsError == ErrorEntry(file_info, "classification or extraction raised")

\* what the inner except returns while result is still the analyzer's result
RawEntry == ResultEntry(file_info, request_id, RawResult(content))

\* the extraction awaited at each position
ExtractionCall(at) ==
    CASE at = "extract_invoice" -> "get_invoice_extraction"
      [] at = "extract_tax" -> "get_tax_invoice_extraction"
      [] at = "extract_gl" -> "get_gl_extraction"

\* the calls of an extraction that returned, then of create_document if called
ExtractedCalls(at, persist, create_ok) ==
    << Call(ExtractionCall(at), "record") >>
        \o (IF persist
            THEN << Call("create_document", IF create_ok THEN "created" ELSE "raised") >>
            ELSE << >>)

\* get_content_classification raises: logged, the analyzer's result is returned
ClassifyFails ==
    /\ pc = "classify"
    /\ calls' = Append(calls, Call("get_content_classification", "raised"))
    /\ NextFile(<< RawEntry >>)
    /\ UNCHANGED << config, acc, db, uuid_count, jobs, flushes,
                    submitted, status >>
    /\ UNCHANGED << recon, message, batches >>

\* classification Invoice, whatever is_document_complete says: await
\* get_invoice_extraction
ClassifyInvoice ==
    /\ pc = "classify"
    /\ \E complete \in BOOLEAN :
          /\ ~WaitsForMorePages("Invoice", complete)
          /\ is_document_complete' = complete
    /\ calls' = Append(calls, Call("get_content_classification", "Invoice"))
    /\ pc' = "extract_invoice"
    /\ UNCHANGED << config, idx, request_id, retry_count, content, urn, merged_content,
                    merged_pdf_url, acc, analysis_results, db, uuid_count, jobs,
                    flushes, submitted, status >>
    /\ UNCHANGED << recon, message, batches >>

\* classification GeneralLedger, whatever is_document_complete says: await
\* get_gl_extraction
ClassifyGeneralLedger ==
    /\ pc = "classify"
    /\ \E complete \in BOOLEAN :
          /\ ~WaitsForMorePages("GeneralLedger", complete)
          /\ is_document_complete' = complete
    /\ calls' = Append(calls, Call("get_content_classification", "GeneralLedger"))
    /\ pc' = "extract_gl"
    /\ UNCHANGED << config, idx, request_id, retry_count, content, urn, merged_content,
                    merged_pdf_url, acc, analysis_results, db, uuid_count, jobs,
                    flushes, submitted, status >>
    /\ UNCHANGED << recon, message, batches >>

\* any other classification: no extraction
ClassifyUnknown ==
    /\ pc = "classify"
    /\ calls' = Append(calls, Call("get_content_classification", "Unknown"))
    /\ NextFile(<< ResultEntry(file_info, request_id, UnknownResult) >>)
    /\ UNCHANGED << config, acc, db, uuid_count, jobs, flushes,
                    submitted, status >>
    /\ UNCHANGED << recon, message, batches >>

\* classification TaxInvoice, is_document_complete false: accumulate, return None
ClassifyTaxInvoiceIncomplete ==
    /\ pc = "classify"
    /\ \E content_type \in ContentType \ {"Unknown"} :
          /\ WaitsForMorePages(content_type, FALSE)
          /\ calls' = Append(calls, Call("get_content_classification",
                                         IF content_type = "TaxInvoice"
                                         THEN "TaxInvoice, incomplete" ELSE content_type))
    /\ accumulated_tax_invoice_content' = AddPage(accumulated_tax_invoice_content, content)
    /\ accumulated_tax_invoice_urls' = AddPage(accumulated_tax_invoice_urls, file_info.url)
    /\ NextFile(PendingOutcome(file_info))
    /\ UNCHANGED << config, db, uuid_count, jobs, flushes,
                    submitted, status >>
    /\ UNCHANGED << recon, message, batches >>

\* classification TaxInvoice, is_document_complete true: accumulate, join the
\* texts, merge the PDFs (the merge may raise), await get_tax_invoice_extraction
ClassifyTaxInvoiceComplete ==
    /\ pc = "classify"
    /\ LET pages == AddPage(accumulated_tax_invoice_content, content)
           file_urls == AddPage(accumulated_tax_invoice_urls, file_info.url)
       IN  /\ accumulated_tax_invoice_content' = pages
           /\ accumulated_tax_invoice_urls' = file_urls
           /\ merged_content' = JoinPages(pages)
           /\ \E merge_ok \in (IF NeedsMerge(file_urls) THEN BOOLEAN ELSE {TRUE}) :
                 /\ merged_pdf_url' = MergedPdfUrl(file_urls, file_info.url, merge_ok)
                 /\ calls' = calls
                       \o << Call("get_content_classification", "TaxInvoice, complete") >>
                       \o (IF NeedsMerge(file_urls)
                           THEN << Call("_merge_pdfs_from_urls",
                                        IF merge_ok THEN "merged" ELSE "raised") >>
                           ELSE << >>)
           /\ flushes' = Append(flushes, [pages |-> pages, text |-> JoinPages(pages)])
    /\ is_document_complete' = TRUE
    /\ pc' = "extract_tax"
    /\ UNCHANGED << config, idx, request_id, retry_count, content, urn,
                    analysis_results, db, uuid_count, jobs,
                    submitted, status >>
    /\ UNCHANGED << recon, message, batches >>

\* the extraction call raises: logged, the analyzer's result is returned
ExtractionFails ==
    /\ pc \in {"extract_invoice", "extract_tax", "extract_gl"}
    /\ calls' = Append(calls, Call(ExtractionCall(pc), "raised"))
    /\ NextFile(<< RawEntry >>)
    /\ UNCHANGED << config, acc, db, uuid_count, jobs, flushes,
                    submitted, status >>
    /\ UNCHANGED << recon, message, batches >>

InvoiceRecord ==
    [NoResult EXCEPT !.shape = "invoice", !.urn = urn, !.id = uuid_count + 1,
                     !.documentUrl = SourceDoc(file_info.url)]

\* get_invoice_extraction returns; the record is created when there is a URN;
\* create_document may raise, which is logged and the record is returned
ExtractInvoice ==
    /\ pc = "extract_invoice"
    /\ uuid_count' = uuid_count + 1
    /\ LET persist == ShouldPersist(azure_cosmos_repo, urn)
       IN  \E create_ok \in (IF persist THEN BOOLEAN ELSE {TRUE}) :
              /\ db' = IF persist /\ create_ok
                       THEN Append(db, [container_id |-> "invoices", document |-> InvoiceRecord])
                       ELSE db
              /\ calls' = calls \o ExtractedCalls(pc, persist, create_ok)
    /\ NextFile(<< ResultEntry(file_info, request_id, InvoiceRecord) >>)
    /\ UNCHANGED << config, acc, jobs, flushes,
                    submitted, status >>
    /\ UNCHANGED << recon, message, batches >>

TaxInvoiceRecord ==
    [NoResult EXCEPT !.shape = "tax_invoice", !.urn = urn, !.id = uuid_count + 1,
                     !.documentUrl = merged_pdf_url,
                     !.total_pages = total_pages(accumulated_tax_invoice_content)]

\* get_tax_invoice_extraction returns; the record is created when there is a
\* URN; the accumulated lists are cleared unless create_document raised
ExtractTaxInvoice ==
    /\ pc = "extract_tax"
    /\ uuid_count' = uuid_count + 1
    /\ LET persist == ShouldPersist(azure_cosmos_repo, urn)
       IN  \E create_ok \in (IF persist THEN BOOLEAN ELSE {TRUE}) :
              /\ db' = IF persist /\ create_ok
                       THEN Append(db, [container_id |-> "tax-invoices", document |-> TaxInvoiceRecord])
                       ELSE db
              /\ calls' = calls \o ExtractedCalls(pc, persist, create_ok)
              /\ IF create_ok
                 THEN /\ accumulated_tax_invoice_content' = << >>
                      /\ accumulated_tax_invoice_urls' = << >>
                 ELSE UNCHANGED acc
    /\ NextFile(<< ResultEntry(file_info, request_id, TaxInvoiceRecord) >>)
    /\ UNCHANGED << config, jobs, flushes,
                    submitted, status >>
    /\ UNCHANGED << recon, message, batches >>

GLRecord ==
    [NoResult EXCEPT !.shape = "gl", !.documentUrl = SourceDoc(file_info.url)]

\* get_gl_extraction returns: the record gets its documentUrl and is returned
ExtractGeneralLedger ==
    /\ pc = "extract_gl"
    /\ calls' = calls \o ExtractedCalls(pc, FALSE, TRUE)
    /\ NextFile(<< ResultEntry(file_info, request_id, GLRecord) >>)
    /\ UNCHANGED << config, acc, db, uuid_count, jobs, flushes,
                    submitted, status >>
    /\ UNCHANGED << recon, message, batches >>

(***************************************************************************)
(* The specification of one batch.                                         *)
(***************************************************************************)
Next ==
    \/ ListFilesFails
    \/ SortFiles
    \/ SkipNoUrl
    \/ SkipUnsupported
    \/ SubmitRaises
    \/ SubmitNoRequestId
    \/ SubmitOk
    \/ ReturnResults
    \/ PollTimeout
    \/ PollRaises
    \/ PollFailed
    \/ PollNotReady
    \/ Wake
    \/ Cancelled
    \/ PollSucceededNoLlm
    \/ PollSucceeded
    \/ ClassifyFails
    \/ ClassifyInvoice
    \/ ClassifyGeneralLedger
    \/ ClassifyUnknown
    \/ ClassifyTaxInvoiceIncomplete
    \/ ClassifyTaxInvoiceComplete
    \/ ExtractionFails
    \/ ExtractInvoice
    \/ ExtractTaxInvoice
    \/ ExtractGeneralLedger

Spec == Init /\ [][Next]_vars

(***************************************************************************)
(* reconciliation_process: the documents of one URN and the catalog.       *)
(***************************************************************************)
\* largest number of tax invoices and of GL transactions stored for the URN
MaxInvoices == 2
MaxGL == 3

\* a GL transaction without "vendorId" (or with an empty one)
NoVendor == 0

\* a detail without "matched_tax_reference"
NoMatch ==
    [description |-> "", taxId |-> 0, vendorId |-> NoVendor, similarity_score |-> 0,
     vendorTaxReferenceId |-> 0]

Detail(item_name) == [itemName |-> item_name, matched_tax_reference |-> NoMatch]

\* the tax invoices a URN can have, oldest last (ORDER BY c.created_at DESC)
TaxInvoicePool ==
    << [id |-> 1, taxInvoiceDetail |-> << Detail("paper"), Detail("ink") >>],
       [id |-> 2, taxInvoiceDetail |-> << Detail(""), Detail("ink") >>],
       [id |-> 3, taxInvoiceDetail |-> << >>] >>

\* the GL transactions a URN can have, oldest last
GLPool ==
    << [id |-> 1, vendorId |-> 1], [id |-> 2, vendorId |-> 2],
       [id |-> 3, vendorId |-> NoVendor], [id |-> 4, vendorId |-> 1],
       [id |-> 5, vendorId |-> 3], [id |-> 6, vendorId |-> 5] >>

\* the elements of pool at the positions in chosen, in the order of pool
RECURSIVE Selected(_, _)
Selected(pool, chosen) ==
    IF pool = << >> THEN << >>
    ELSE Selected(SubSeq(pool, 1, Len(pool) - 1), chosen)
            \o (IF Len(pool) \in chosen THEN << pool[Len(pool)] >> ELSE << >>)

\* what query_documents can return for a container that holds some of pool
QueryResults(pool, max) ==
    {Selected(pool, chosen) : chosen \in {c \in SUBSET (1..Len(pool)) : Cardinality(c) <= max}}

\* the container "vendor-tax-reference"
VendorTaxReferences ==
    { [vendorTaxReferenceId |-> 11, vendorId |-> 1, taxId |-> 101, description |-> "paper A4"],
      [vendorTaxReferenceId |-> 12, vendorId |-> 1, taxId |-> 102, description |-> "paper A3"],
      [vendorTaxReferenceId |-> 13, vendorId |-> 1, taxId |-> 103, description |-> "toner"],
      [vendorTaxReferenceId |-> 14, vendorId |-> 1, taxId |-> 104, description |-> "rent"],
      [vendorTaxReferenceId |-> 21, vendorId |-> 2, taxId |-> 201, description |-> "stationery"],
      [vendorTaxReferenceId |-> 31, vendorId |-> 3, taxId |-> 301, description |-> "printing"],
      [vendorTaxReferenceId |-> 32, vendorId |-> 3, taxId |-> 302, description |-> "copying"],
      [vendorTaxReferenceId |-> 41, vendorId |-> 4, taxId |-> 401,
       description |-> "paper and ink"] }

\* VectorDistance(c.embedding, @embedding) in hundredths, for the embedding of
\* each item name: lower is nearer
VectorDistance(ref, item_name) ==
    LET id == ref.vendorTaxReferenceId
    IN  IF item_name = "paper"
        THEN CASE id = 11 -> 31 [] id = 12 -> 40 [] id = 13 -> 50 [] id = 14 -> 60
               [] id = 21 -> 12 [] id = 31 -> 45 [] id = 32 -> 45 [] id = 41 -> 5
        ELSE CASE id = 11 -> 20 [] id = 12 -> 20 [] id = 13 -> 90 [] id = 14 -> 95
               [] id = 21 -> 20 [] id = 31 -> 70 [] id = 32 -> 80 [] id = 41 -> 1

\* top_k=3
top_k == 3

\* a search that ignores the vendor
SearchFilter_AnyVendor(ref, vendor_id) == TRUE

\* additional_filters=f"c.vendorId = {vendor_id}"
SearchFilter(ref, vendor_id) == ref.vendorId = vendor_id

\* one item of a search result: c.* and similarity_score
Scored(ref, item_name) ==
    [vendorTaxReferenceId |-> ref.vendorTaxReferenceId, vendorId |-> ref.vendorId,
     taxId |-> ref.taxId, description |-> ref.description,
     similarity_score |-> VectorDistance(ref, item_name)]

\* vector_search: the entries that pass the filter, ORDER BY VectorDistance,
\* items[:top_k]; entries at the same distance come in any order
vector_search(item_name, k, vendor_id) ==
    LET passing == {c \in VendorTaxReferences : SearchFilter(c, vendor_id)}
        hits == {Scored(r, item_name) : r \in passing}
        n == IF Cardinality(hits) < k THEN Cardinality(hits) ELSE k
    IN  { items \in [1..n -> hits] :
            /\ \A i, j \in 1..n : i < j => /\ items[i] # items[j]
                                           /\ items[i].similarity_score <= items[j].similarity_score
            /\ \A h \in hits \ {items[i] : i \in 1..n} :
                  \A i \in 1..n : items[i].similarity_score <= h.similarity_score }

\* a collection of vendor identifiers that keeps the missing ones
vendor_ids_WithMissing(gl) == {gl[i].vendorId : i \in 1..Len(gl)}

\* vendor_ids: the set of the truthy vendorId of the GL transactions
vendor_ids(gl) == {gl[i].vendorId : i \in 1..Len(gl)} \ {NoVendor}

\* the orders in which a set can be iterated
IterationOrders(set) ==
    {order \in [1..Cardinality(set) -> set] :
        \A i, j \in 1..Cardinality(set) : i # j => order[i] # order[j]}

\* the results of one search after the other, for the vendors in this order
RECURSIVE AllSearches(_, _)
AllSearches(item_name, order) ==
    IF order = << >> THEN {<< >>}
    ELSE {<< first >> \o rest : first \in vector_search(item_name, top_k, order[1]),
                                rest \in AllSearches(item_name, Tail(order))}

\* best_matches.extend(search_results), for every search
RECURSIVE Extended(_)
Extended(results) == IF results = << >> THEN << >> ELSE results[1] \o Extended(Tail(results))

\* list.sort(key=similarity_score): stable, ascending
RECURSIVE InsertByScore(_, _)
InsertByScore(sortedSeq, x) ==
    IF sortedSeq = << >> THEN << x >>
    ELSE IF x.similarity_score < sortedSeq[1].similarity_score THEN << x >> \o sortedSeq
    ELSE << sortedSeq[1] >> \o InsertByScore(Tail(sortedSeq), x)

RECURSIVE SortedByScore(_)
SortedByScore(matches) ==
    IF matches = << >> THEN << >>
    ELSE InsertByScore(SortedByScore(SubSeq(matches, 1, Len(matches) - 1)), matches[Len(matches)])

\* a choice that takes the first candidate found
top_match_Unsorted(best_matches) == best_matches[1]

\* top_match = best_matches[0], after the sort
top_match(best_matches) == SortedByScore(best_matches)[1]

\* detail["matched_tax_reference"]
MatchedTaxReference(match) ==
    [description |-> match.description, taxId |-> match.taxId, vendorId |-> match.vendorId,
     similarity_score |-> match.similarity_score,
     vendorTaxReferenceId |-> match.vendorTaxReferenceId]

(***************************************************************************)
(* reconciliation_process: the pass over the line items.                   *)
(***************************************************************************)
\* the state of process_documents_in_folder, which the pass does not read
batch ==
    << llm_service_repo, files, idx, locals, status, acc, analysis_results, db,
       uuid_count, jobs, calls, flushes, submitted >>

InitRecon ==
    /\ pc = "recon_start"
    /\ azure_cosmos_repo \in BOOLEAN
    /\ embedding_repo \in BOOLEAN
    /\ tax_invoices \in QueryResults(TaxInvoicePool, MaxInvoices)
    /\ gl_transactions \in QueryResults(GLPool, MaxGL)
    /\ ti = 0
    /\ di = 0
    /\ embedded = << >>
    /\ searches = << >>
    /\ document_id = 0
    /\ message_urn = NoUrn
    /\ upload = NoUpload
    /\ batches = << >>
    /\ llm_service_repo = FALSE
    /\ files = << >>
    /\ idx = 0
    /\ request_id = 0
    /\ retry_count = 0
    /\ status = "none"
    /\ content = << >>
    /\ urn = NoUrn
    /\ is_document_complete = TRUE
    /\ merged_content = << >>
    /\ merged_pdf_url = NoDoc
    /\ accumulated_tax_invoice_content = << >>
    /\ accumulated_tax_invoice_urls = << >>
    /\ analysis_results = << >>
    /\ db = << >>
    /\ uuid_count = 0
    /\ jobs = 0
    /\ calls = << >>
    /\ flushes = << >>
    /\ submitted = << >>

\* a query_documents call raises (or there is no document store): the outer
\* except re-raises
ReconQueryFails ==
    /\ pc = "recon_start"
    /\ pc' = "recon_raised"
    /\ UNCHANGED << azure_cosmos_repo, recon, batch, message, batches >>

\* the three queries return; the loops start
ReconLoad ==
    /\ pc = "recon_start"
    /\ azure_cosmos_repo
    /\ ti' = 1
    /\ di' = 1
    /\ pc' = "recon_item"
    /\ UNCHANGED << azure_cosmos_repo, embedding_repo, tax_invoices, gl_transactions,
                    embedded, searches, batch, message, batches >>

tax_invoice_details == tax_invoices[ti].taxInvoiceDetail

detail == tax_invoice_details[di]

AtDetail == pc = "recon_item" /\ ti <= Len(tax_invoices) /\ di <= Len(tax_invoice_details)

\* the inner for loop is over: the next tax invoice
ReconNextInvoice ==
    /\ pc = "recon_item"
    /\ ti <= Len(tax_invoices)
    /\ di > Len(tax_invoice_details)
    /\ ti' = ti + 1
    /\ di' = 1
    /\ UNCHANGED << pc, azure_cosmos_repo, embedding_repo, tax_invoices, gl_transactions,
                    embedded, searches, batch, message, batches >>

\* if not item_name: continue
ReconSkipNoName ==
    /\ AtDetail
    /\ detail.itemName = ""
    /\ di' = di + 1
    /\ searches' = << >>
    /\ UNCHANGED << pc, azure_cosmos_repo, embedding_repo, tax_invoices, gl_transactions,
                    ti, embedded, batch, message, batches >>

\* no embedding service: a warning, the next detail
ReconNoEmbeddingRepo ==
    /\ AtDetail
    /\ detail.itemName # ""
    /\ ~embedding_repo
    /\ di' = di + 1
    /\ searches' = << >>
    /\ UNCHANGED << pc, azure_cosmos_repo, embedding_repo, tax_invoices, gl_transactions,
                    ti, embedded, batch, message, batches >>

\* await self.embedding_repo.get_embedding_result(item_name)
ReconEmbed ==
    /\ AtDetail
    /\ detail.itemName # ""
    /\ embedding_repo
    /\ embedded' = Append(embedded, << ti, di >>)
    /\ searches' = << >>
    /\ pc' = "recon_embedding"
    /\ UNCHANGED << azure_cosmos_repo, embedding_repo, tax_invoices, gl_transactions,
                    ti, di, batch, message, batches >>

\* the outer for loop is over: the pass completes
ReconDone ==
    /\ pc = "recon_item"
    /\ ti > Len(tax_invoices)
    /\ pc' = "recon_done"
    /\ UNCHANGED << azure_cosmos_repo, recon, batch, message, batches >>

\* a pass that a failure on one item ends
AfterItemFailure_Aborts == "recon_raised"

\* except Exception (around the embedding and the searches): logged, the next detail
AfterItemFailure == "recon_item"

\* the vector_search calls that returned, as the log keeps them
SearchLog(order, results) ==
    [k \in 1..Len(results) |->
        [vendorId |-> order[k], top_k |-> top_k, raised |-> FALSE, items |-> results[k]]]

\* get_embedding_result raises: the detail stays without a match
ReconEmbeddingFails ==
    /\ pc = "recon_embedding"
    /\ di' = di + 1
    /\ pc' = AfterItemFailure
    /\ UNCHANGED << azure_cosmos_repo, embedding_repo, tax_invoices, gl_transactions,
                    ti, embedded, searches, batch, message, batches >>

\* the embedding returns and one vector_search raises, after the searches for
\* the vendors before it: the detail stays without a match
ReconSearchFails ==
    /\ pc = "recon_embedding"
    /\ \E order \in IterationOrders(vendor_ids(gl_transactions)) :
          \E k \in 1..Len(order) :
             \E results \in AllSearches(detail.itemName, SubSeq(order, 1, k - 1)) :
                searches' = SearchLog(order, results)
                               \o << [vendorId |-> order[k], top_k |-> top_k,
                                      raised |-> TRUE, items |-> << >>] >>
    /\ di' = di + 1
    /\ pc' = AfterItemFailure
    /\ UNCHANGED << azure_cosmos_repo, embedding_repo, tax_invoices, gl_transactions,
                    ti, embedded, batch, message, batches >>

\* a pass that writes the tax invoice back after matching one of its details
StoreAfterMatch_WrittenBack(store, tax_invoice) ==
    Append(store, [container_id |-> "tax-invoices", document |-> tax_invoice])

\* detail["matched_tax_reference"] = {...} changes the dictionary the query
\* returned; no create, upsert or update call follows
StoreAfterMatch(store, tax_invoice) == store

\* the embedding returns and every vector_search returns: the nearest of all
\* candidates, if there is one, is stored in the detail
ReconMatch ==
    /\ pc = "recon_embedding"
    /\ \E order \in IterationOrders(vendor_ids(gl_transactions)) :
          \E results \in AllSearches(detail.itemName, order) :
             LET best_matches == Extended(results)
             IN  /\ searches' = SearchLog(order, results)
                 /\ tax_invoices' =
                       IF best_matches # << >>
                       THEN [tax_invoices EXCEPT
                               ![ti].taxInvoiceDetail[di].matched_tax_reference =
                                   MatchedTaxReference(top_match(best_matches))]
                       ELSE tax_invoices
    /\ db' = StoreAfterMatch(db, tax_invoices'[ti])
    /\ di' = di + 1
    /\ pc' = "recon_item"
    /\ UNCHANGED << azure_cosmos_repo, embedding_repo, gl_transactions, ti, embedded,
                    llm_service_repo, files, idx, locals, status, acc, analysis_results,
                    uuid_count, jobs, calls, flushes, submitted, message, batches >>

NextRecon ==
    \/ ReconQueryFails
    \/ ReconLoad
    \/ ReconNextInvoice
    \/ ReconSkipNoName
    \/ ReconNoEmbeddingRepo
    \/ ReconEmbed
    \/ ReconDone
    \/ ReconEmbeddingFails
    \/ ReconSearchFails
    \/ ReconMatch

SpecRecon == InitRecon /\ [][NextRecon]_vars

(***************************************************************************)
(* process_message: one batch, the reconciliation of the first URN among   *)
(* its outcomes, then the status of the upload.                            *)
(***************************************************************************)
\* files in the folder of a message, and documents a query of the pass returns
MaxMessageFiles == 2
MaxStored == 1

\* what list_files can return for the folder of the message
MessageListings == {l \in Listings : Len(l) <= MaxMessageFiles}

InitMessage ==
    /\ pc = "message"
    /\ document_id \in {0, 1}
    /\ message_urn = NoUrn
    /\ upload = NoUpload
    /\ llm_service_repo \in BOOLEAN
    /\ azure_cosmos_repo \in BOOLEAN
    /\ embedding_repo \in BOOLEAN
    /\ files = << >>
    /\ idx = 0
    /\ request_id = 0
    /\ retry_count = 0
    /\ status = "none"
    /\ content = << >>
    /\ urn = NoUrn
    /\ is_document_complete = TRUE
    /\ merged_content = << >>
    /\ merged_pdf_url = NoDoc
    /\ accumulated_tax_invoice_content = << >>
    /\ accumulated_tax_invoice_urls = << >>
    /\ analysis_results = << >>
    /\ db = << >>
    /\ uuid_count = 0
    /\ jobs = 0
    /\ calls = << >>
    /\ flushes = << >>
    /\ submitted = << >>
    /\ tax_invoices = << >>
    /\ gl_transactions = << >>
    /\ ti = 0
    /\ di = 0
    /\ embedded = << >>
    /\ searches = << >>
    /\ batches = << >>

\* what the pass and the batch leave alone in the steps of process_message
repos == << llm_service_repo, azure_cosmos_repo, embedding_repo >>

\* if not document_id: log and return
MessageWithoutDocumentId ==
    /\ pc = "message"
    /\ document_id = 0
    /\ pc' = "message_returned"
    /\ UNCHANGED << repos, files, idx, locals, status, acc, analysis_results, db, uuid_count,
                    jobs, calls, flushes, submitted, tax_invoices, gl_transactions, ti, di,
                    embedded, searches, message, batches >>

\* await self.process_documents_in_folder(file_id=document_id)
MessageStartsBatch ==
    /\ pc = "message"
    /\ document_id # 0
    /\ files' \in MessageListings
    /\ pc' = "start"
    /\ UNCHANGED << repos, idx, locals, status, acc, analysis_results, db, uuid_count,
                    jobs, calls, flushes, submitted, tax_invoices, gl_transactions, ti, di,
                    embedded, searches, message, batches >>

\* a caller that reconciles the last URN among the outcomes
outcome_urn_Last(result) ==
    LET with_urn == {i \in 1..Len(result) : result[i].analysis_result.urn # NoUrn}
    IN  IF with_urn = {} THEN NoUrn
        ELSE result[CHOOSE i \in with_urn : \A j \in with_urn : i >= j].analysis_result.urn

\* urn = next((res['analysis_result']['urn'] for res in result if ...), None):
\* the first truthy urn among the outcomes, in order
outcome_urn(result) ==
    LET with_urn == {i \in 1..Len(result) : result[i].analysis_result.urn # NoUrn}
    IN  IF with_urn = {} THEN NoUrn
        ELSE result[CHOOSE i \in with_urn : \A j \in with_urn : i <= j].analysis_result.urn

\* if urn is falsy: no reconciliation
MessageSkipsReconciliation ==
    /\ pc = "returned"
    /\ outcome_urn(analysis_results) = NoUrn
    /\ message_urn' = NoUrn
    /\ pc' = "update"
    /\ UNCHANGED << repos, files, idx, locals, status, acc, analysis_results, db, uuid_count,
                    jobs, calls, flushes, submitted, tax_invoices, gl_transactions, ti, di,
                    embedded, searches, document_id, upload, batches >>

\* the tax invoices created in the store for a URN by the batch
CreatedTaxInvoices(u) ==
    {k \in 1..Len(db) : db[k].container_id = "tax-invoices" /\ db[k].document.urn = u}

\* if urn: await self.reconciliation_process(urn=urn).  What the store holds
\* for the URN is what its queries will return: nothing but a tax invoice the
\* batch created is known of it.  The batch's call is over, its lists, its
\* counters and the result the urn was taken from are not read again.
MessageStartsReconciliation ==
    /\ pc = "returned"
    /\ outcome_urn(analysis_results) # NoUrn
    /\ message_urn' = outcome_urn(analysis_results)
    /\ tax_invoices' \in QueryResults(TaxInvoicePool, MaxStored)
    /\ CreatedTaxInvoices(outcome_urn(analysis_results)) # {} => tax_invoices' # << >>
    /\ gl_transactions' \in QueryResults(GLPool, MaxStored)
    /\ pc' = "recon_start"
    /\ files' = << >>
    /\ idx' = 0
    /\ status' = "none"
    /\ accumulated_tax_invoice_content' = << >>
    /\ accumulated_tax_invoice_urls' = << >>
    /\ analysis_results' = << >>
    /\ calls' = << >>
    /\ flushes' = << >>
    /\ submitted' = << >>
    /\ UNCHANGED << repos, locals, db, uuid_count, jobs, ti, di, embedded, searches,
                    document_id, upload, batches >>

\* except Exception: log, raise
MessageRaises ==
    /\ pc \in {"raised", "recon_raised"}
    /\ pc' = "message_raised"
    /\ UNCHANGED << repos, files, idx, locals, status, acc, analysis_results, db, uuid_count,
                    jobs, calls, flushes, submitted, tax_invoices, gl_transactions, ti, di,
                    embedded, searches, message, batches >>

\* update_document(..., {"urn": urn, "status": "completed", ...}, "uploads")
MessageUpdatesStatus ==
    /\ pc \in {"update", "recon_done"}
    /\ azure_cosmos_repo
    /\ upload' = [urn |-> message_urn, status |-> "completed"]
    /\ pc' = "message_done"
    /\ UNCHANGED << repos, files, idx, locals, status, acc, analysis_results, db, uuid_count,
                    jobs, calls, flushes, submitted, tax_invoices, gl_transactions, ti, di,
                    embedded, searches, document_id, message_urn, batches >>

\* update_document raises (there may be no document store): log, raise
MessageUpdateFails ==
    /\ pc \in {"update", "recon_done"}
    /\ pc' = "message_raised"
    /\ UNCHANGED << repos, files, idx, locals, status, acc, analysis_results, db, uuid_count,
                    jobs, calls, flushes, submitted, tax_invoices, gl_transactions, ti, di,
                    embedded, searches, message, batches >>

NextMessage ==
    \/ MessageWithoutDocumentId
    \/ MessageStartsBatch
    \/ Next
    \/ MessageSkipsReconciliation
    \/ MessageStartsReconciliation
    \/ NextRecon
    \/ MessageUpdatesStatus
    \/ MessageUpdateFails
    \/ MessageRaises

SpecMessage == InitMessage /\ [][NextMessage]_vars

(***************************************************************************)
(* Two process_documents_in_folder calls running as tasks of one event     *)
(* loop on the same ContentExtraction instance.  A task gives way to the   *)
(* other at an await: asyncio.sleep, the classification, an extraction,    *)
(* the merge.  Each call has its own files, loop position, retry count and *)
(* accumulated lists; the instance holds the repositories only.            *)
(***************************************************************************)
Batches == {"A", "B"}

\* the blobs of the folder of each batch
Folder(b) ==
    IF b = "A" THEN {f \in FilePool : f.url \in {"u1", "u2"}}
    ELSE {f \in FilePool : f.url \in {"ug", "u10", "un"}}

\* what list_files can return for the folder
FolderListings(b) == {l \in Listings : \A i \in 1..Len(l) : l[i] \in Folder(b)}

\* a call before its first statement
NewCall ==
    [pc |-> "start", files |-> << >>, idx |-> 0, retry_count |-> 0,
     accumulated_tax_invoice_content |-> << >>, accumulated_tax_invoice_urls |-> << >>,
     merged_content |-> << >>,        \* the page texts joined into merged_content
     merged_pdf_url |-> NoDoc, flushes |-> << >>]

InitBatches ==
    /\ batches = [b \in Batches |-> NewCall]
    /\ pc = "tasks"
    /\ llm_service_repo = TRUE
    /\ azure_cosmos_repo = TRUE
    /\ files = << >>
    /\ idx = 0
    /\ request_id = 0
    /\ retry_count = 0
    /\ status = "none"
    /\ content = << >>
    /\ urn = NoUrn
    /\ is_document_complete = TRUE
    /\ merged_content = << >>
    /\ merged_pdf_url = NoDoc
    /\ accumulated_tax_invoice_content = << >>
    /\ accumulated_tax_invoice_urls = << >>
    /\ analysis_results = << >>
    /\ db = << >>
    /\ uuid_count = 0
    /\ jobs = 0
    /\ calls = << >>
    /\ flushes = << >>
    /\ submitted = << >>
    /\ embedding_repo = FALSE
    /\ tax_invoices = << >>
    /\ gl_transactions = << >>
    /\ ti = 0
    /\ di = 0
    /\ embedded = << >>
    /\ searches = << >>
    /\ document_id = 0
    /\ message_urn = NoUrn
    /\ upload = NoUpload

\* lists kept on the instance, one pair for every call
ListsOf_Instance(b) == "A"

\* accumulated_tax_invoice_content = [] / accumulated_tax_invoice_urls = []:
\* the lists a call appends to are the ones it created
ListsOf(b) == b

\* the file the for loop of call b is at
FileOf(b) == batches[b].files[batches[b].idx]

\* the list of URLs call b passes to _wait_for_analysis_result
UrlsOf(b) == batches[ListsOf(b)].accumulated_tax_invoice_urls

\* the single variable of the two calls changes; the rest is not in use
OnlyBatches ==
    UNCHANGED << pc, llm_service_repo, azure_cosmos_repo, files, idx, locals, status, acc,
                 analysis_results, db, uuid_count, jobs, calls, flushes, submitted, recon,
                 message >>

\* the for loop of call b moves on
Advance(b, calls_state) ==
    [calls_state EXCEPT ![b].idx = @ + 1, ![b].pc = "loop", ![b].retry_count = 0,
                        ![b].merged_content = << >>, ![b].merged_pdf_url = NoDoc]

\* list_files returns, the files are sorted, the two lists are created
BatchLists(b) ==
    /\ batches[b].pc = "start"
    /\ \E l \in FolderListings(b) :
          batches' = [batches EXCEPT ![b].files = SortedFiles(l), ![b].idx = 1,
                                     ![b].pc = "loop"]
    /\ OnlyBatches

\* list_files raises: the call raises
BatchListFails(b) ==
    /\ batches[b].pc = "start"
    /\ batches' = [batches EXCEPT ![b].pc = "raised"]
    /\ OnlyBatches

AtBatchFile(b) == batches[b].pc = "loop" /\ batches[b].idx <= Len(batches[b].files)

BatchAnalyzable(b) == AtBatchFile(b) /\ FileOf(b).url # "" /\ IsSupported(FileOf(b))

\* no URL or an extension that is not supported: continue
BatchSkips(b) ==
    /\ AtBatchFile(b)
    /\ ~BatchAnalyzable(b)
    /\ batches' = [batches EXCEPT ![b].idx = @ + 1]
    /\ OnlyBatches

\* analyze_invoice raises or returns no request id: an error entry
BatchSubmitFails(b) ==
    /\ BatchAnalyzable(b)
    /\ batches' = Advance(b, batches)
    /\ OnlyBatches

\* analyze_invoice returns a request id: _wait_for_analysis_result starts
BatchSubmits(b) ==
    /\ BatchAnalyzable(b)
    /\ batches' = [batches EXCEPT ![b].pc = "poll", ![b].retry_count = 0]
    /\ OnlyBatches

\* the retry budget is spent, get_analyzer_results raises or the status is a
\* failure: an error entry
BatchPollEnds(b) ==
    /\ batches[b].pc = "poll"
    /\ batches' = Advance(b, batches)
    /\ OnlyBatches

\* status Running or unrecognized: await asyncio.sleep
BatchPollNotReady(b) ==
    /\ batches[b].pc = "poll"
    /\ BudgetLeft(batches[b].retry_count)
    /\ batches' = [batches EXCEPT ![b].retry_count = NextRetryCount("Running", @),
                                  ![b].pc = "sleep"]
    /\ OnlyBatches

\* asyncio.sleep returns
BatchWakes(b) ==
    /\ batches[b].pc = "sleep"
    /\ batches' = [batches EXCEPT ![b].pc = "poll"]
    /\ OnlyBatches

\* status Succeeded: await get_content_classification
BatchPollSucceeded(b) ==
    /\ batches[b].pc = "poll"
    /\ BudgetLeft(batches[b].retry_count)
    /\ batches' = [batches EXCEPT ![b].pc = "classify"]
    /\ OnlyBatches

\* the classification raises or is Unknown: no extraction
BatchNoExtraction(b) ==
    /\ batches[b].pc = "classify"
    /\ batches' = Advance(b, batches)
    /\ OnlyBatches

\* classification Invoice or GeneralLedger: await the extraction
BatchClassifiedStandalone(b) ==
    /\ batches[b].pc = "classify"
    /\ batches' = [batches EXCEPT ![b].pc = "extract"]
    /\ OnlyBatches

\* get_invoice_extraction or get_gl_extraction returns or raises
BatchExtracted(b) ==
    /\ batches[b].pc = "extract"
    /\ batches' = Advance(b, batches)
    /\ OnlyBatches

\* the page of call b appended to the lists the call was given
WithPage(b) ==
    [batches EXCEPT
        ![ListsOf(b)].accumulated_tax_invoice_content = AddPage(@, FileOf(b).markdown),
        ![ListsOf(b)].accumulated_tax_invoice_urls = AddPage(@, FileOf(b).url)]

\* classification TaxInvoice, is_document_complete false: accumulate, return None
BatchTaxInvoiceIncomplete(b) ==
    /\ batches[b].pc = "classify"
    /\ batches' = Advance(b, WithPage(b))
    /\ OnlyBatches

\* the call of get_tax_invoice_extraction, as flushes keeps it
Flush(pages, document) == [pages |-> pages, text |-> JoinPages(pages), documentUrl |-> document]

\* classification TaxInvoice, is_document_complete true: accumulate, join the
\* texts; then await _merge_pdfs_from_urls when there are several pages, or
\* get_tax_invoice_extraction at once
BatchTaxInvoiceComplete(b) ==
    /\ batches[b].pc = "classify"
    /\ LET added == WithPage(b)
           pages == added[ListsOf(b)].accumulated_tax_invoice_content
           file_urls == added[ListsOf(b)].accumulated_tax_invoice_urls
       IN  batches' =
              IF NeedsMerge(file_urls)
              THEN [added EXCEPT ![b].merged_content = pages, ![b].pc = "merge"]
              ELSE [added EXCEPT ![b].merged_content = pages,
                                 ![b].merged_pdf_url = SourceDoc(FileOf(b).url),
                                 ![b].flushes = Append(@, Flush(pages, SourceDoc(FileOf(b).url))),
                                 ![b].pc = "extract_tax"]
    /\ OnlyBatches

\* _merge_pdfs_from_urls returns or raises; await get_tax_invoice_extraction
BatchMerged(b) ==
    /\ batches[b].pc = "merge"
    /\ \E merge_ok \in BOOLEAN :
          LET document == MergedPdfUrl(UrlsOf(b), FileOf(b).url, merge_ok)
          IN  batches' = [batches EXCEPT
                             ![b].merged_pdf_url = document,
                             ![b].flushes = Append(@, Flush(batches[b].merged_content, document)),
                             ![b].pc = "extract_tax"]
    /\ OnlyBatches

\* get_tax_invoice_extraction returns and the lists are cleared; they are not
\* when it raises or create_document raises
BatchTaxInvoiceExtracted(b) ==
    /\ batches[b].pc = "extract_tax"
    /\ \E cleared \in BOOLEAN :
          batches' =
             Advance(b, IF cleared
                        THEN [batches EXCEPT
                                 ![ListsOf(b)].accumulated_tax_invoice_content = << >>,
                                 ![ListsOf(b)].accumulated_tax_invoice_urls = << >>]
                        ELSE batches)
    /\ OnlyBatches

\* the for loop is over: return analysis_results
BatchReturns(b) ==
    /\ batches[b].pc = "loop"
    /\ batches[b].idx > Len(batches[b].files)
    /\ batches' = [batches EXCEPT ![b].pc = "returned"]
    /\ OnlyBatches

NextBatches ==
    \/ \E b \in Batches : BatchLists(b)
    \/ \E b \in Batches : BatchListFails(b)
    \/ \E b \in Batches : BatchSkips(b)
    \/ \E b \in Batches : BatchSubmitFails(b)
    \/ \E b \in Batches : BatchSubmits(b)
    \/ \E b \in Batches : BatchPollEnds(b)
    \/ \E b \in Batches : BatchPollNotReady(b)
    \/ \E b \in Batches : BatchWakes(b)
    \/ \E b \in Batches : BatchPollSucceeded(b)
    \/ \E b \in Batches : BatchNoExtraction(b)
    \/ \E b \in Batches : BatchClassifiedStandalone(b)
    \/ \E b \in Batches : BatchExtracted(b)
    \/ \E b \in Batches : BatchTaxInvoiceIncomplete(b)
    \/ \E b \in Batches : BatchTaxInvoiceComplete(b)
    \/ \E b \in Batches : BatchMerged(b)
    \/ \E b \in Batches : BatchTaxInvoiceExtracted(b)
    \/ \E b \in Batches : BatchReturns(b)

SpecBatches == InitBatches /\ [][NextBatches]_vars

(***************************************************************************)
(* Vocabulary of the properties.                                           *)
(***************************************************************************)
Range(seq) == {seq[i] : i \in 1..Len(seq)}

Last(seq) == seq[Len(seq)]

\* positions of the completed calls of one collaborator method; a status query
\* is logged with the terminal status it returned, or as "not ready", or as "raised"
CallsOf(name) == {i \in 1..Len(calls) : calls[i][1] = name}

PollCalls == CallsOf("get_analyzer_results")

TerminalStatus == {"Succeeded", "Failed", "AnalyzeError"}

\* the latest iteration of the for loop is over and it analyzed a file
IterationOver == pc \in {"loop", "returned"} /\ calls # << >>

\* the file of that iteration
handled == files[idx - 1]

\* that iteration got a job handle, so _wait_for_analysis_result ran
JobAccepted == calls # << >> /\ calls[1] = Call("analyze_invoice", "id")

\* the outcome entries of one file
EntriesOf(f) == {i \in 1..Len(analysis_results) : analysis_results[i].blob_name = f.blob_name}

\* a timeout at the end of the latest iteration
TimedOut ==
    /\ analysis_results # << >>
    /\ Last(analysis_results) = ErrorEntry(handled, "Timeout")

(***************************************************************************)
(* C1, as stated: the poller makes at most max_retries status queries,     *)
(* every answer that is neither Succeeded nor Failed/AnalyzeError takes    *)
(* one unit of the budget, and when no query returned a terminal status    *)
(* the poller ends by raising the timeout error.                           *)
(* Refuted: a query that raises returns no terminal status, and the        *)
(* poller ends with that error, not with a timeout.                        *)
(***************************************************************************)
C1_TimeoutUnlessTerminal ==
    /\ Cardinality(PollCalls) <= max_retries
    /\ pc \in {"poll", "sleep"} =>
          retry_count = Cardinality({i \in PollCalls : calls[i][2] \notin TerminalStatus})
    /\ pc = "sleep" => status \notin TerminalStatus
    /\ (IterationOver /\ JobAccepted
            /\ \A i \in PollCalls : calls[i][2] \notin TerminalStatus)
          => TimedOut

(***************************************************************************)
(* C1, amended: the poller makes at most max_retries status queries,       *)
(* every answered status that is neither Succeeded nor Failed/AnalyzeError *)
(* (Running or unrecognized) takes one unit of the budget, and when every  *)
(* query was answered with such a status the poller ends by raising the    *)
(* timeout error, after exactly max_retries queries.                       *)
(***************************************************************************)
C1_TimeoutWhenAllNonTerminal ==
    /\ Cardinality(PollCalls) <= max_retries
    /\ pc \in {"poll", "sleep"} =>
          /\ retry_count = Cardinality(PollCalls)
          /\ \A i \in PollCalls : calls[i][2] = "not ready"
    /\ pc = "sleep" => status \in PollStatus \ TerminalStatus
    /\ (IterationOver /\ JobAccepted /\ \A i \in PollCalls : calls[i][2] = "not ready")
          => /\ TimedOut
             /\ Cardinality(PollCalls) = max_retries
             /\ Cardinality(EntriesOf(handled)) = 1

\* a job whose last answer was an unrecognized status, and that timed out
C1_Witness ==
    /\ IterationOver
    /\ JobAccepted
    /\ TimedOut
    /\ status = "Queued"
    /\ Cardinality(PollCalls) = max_retries

(***************************************************************************)
(* C2: a status of Failed or AnalyzeError ends the poller at once with the *)
(* analysis-failed error that carries the status: the failed query is the  *)
(* last call of the iteration (no query, sleep, classification, extraction *)
(* or create_document follows it), whatever was retried before.            *)
(***************************************************************************)
C2_FailureStatusEndsPoller ==
    /\ status \in {"Failed", "AnalyzeError"} =>
          /\ IterationOver
          /\ Last(calls) = Call("get_analyzer_results", status)
    /\ \A i \in PollCalls :
           calls[i][2] \in {"Failed", "AnalyzeError"} =>
               /\ i = Len(calls)
               /\ pc \in {"loop", "returned"}
               /\ analysis_results # << >>
               /\ Last(analysis_results) = ErrorEntry(handled, FailedMessage(calls[i][2]))
               /\ \A j \in 1..(i - 1) :
                      calls[j][1] \in {"analyze_invoice", "get_analyzer_results", "sleep"}

\* AnalyzeError after a retry
C2_Witness ==
    /\ IterationOver
    /\ Last(calls) = Call("get_analyzer_results", "AnalyzeError")
    /\ Cardinality(PollCalls) > 1
    /\ Last(analysis_results).error = "Analysis failed with status: AnalyzeError"

(***************************************************************************)
(* How the latest iteration ended, read from its calls.                    *)
(***************************************************************************)
EndedWithoutHandle == calls = << Call("analyze_invoice", "no id") >>

EndedOnFailureStatus ==
    /\ JobAccepted
    /\ Last(calls)[1] = "get_analyzer_results"
    /\ Last(calls)[2] \in {"Failed", "AnalyzeError"}

EndedOnSpentBudget ==
    /\ JobAccepted
    /\ \A i \in PollCalls : calls[i][2] = "not ready"

ClassificationFailed == Last(calls) = Call("get_content_classification", "raised")

\* the names of the blobs of the pool that have a URL and a supported extension
AnalyzableNames == {f.blob_name : f \in {g \in FilePool : g.url # "" /\ IsSupported(g)}}

\* the names of the files among the first n that the loop analyzes, in order
RECURSIVE AnalyzedNames(_, _)
AnalyzedNames(fs, n) ==
    IF n = 0 THEN << >>
    ELSE AnalyzedNames(fs, n - 1)
            \o (IF fs[n].blob_name \in AnalyzableNames THEN << fs[n].blob_name >> ELSE << >>)

\* no file before the loop position was left out, and the call raises only
\* when list_files failed
LoopNeverAborts ==
    /\ pc \in {"loop", "returned"} => submitted = AnalyzedNames(files, idx - 1)
    /\ pc = "returned" => idx = Len(files) + 1
    /\ pc = "raised" => submitted = << >> /\ analysis_results = << >>

(***************************************************************************)
(* C3: when analysis submission returns no job handle, or polling times    *)
(* out, or the job ends in a failure status, exactly one error outcome is  *)
(* recorded for that file, every later file is still submitted, and the    *)
(* batch call does not raise.                                              *)
(***************************************************************************)
C3_PerFileErrorIsOneOutcome ==
    /\ (IterationOver /\ (EndedWithoutHandle \/ EndedOnFailureStatus \/ EndedOnSpentBudget))
          => /\ Cardinality(EntriesOf(handled)) = 1
             /\ Last(analysis_results).kind = "error"
             /\ Last(analysis_results).blob_name = handled.blob_name
             /\ Len(analysis_results) <= Len(submitted)
    /\ LoopNeverAborts

\* a batch that returned after a missing handle, a timeout and a later success
C3_Witness ==
    /\ pc = "returned"
    /\ \E i, j, k \in 1..Len(analysis_results) :
          /\ i < k /\ j < k
          /\ analysis_results[i].error = "No request ID returned from analyzer"
          /\ analysis_results[j].error = "Timeout"
          /\ analysis_results[k].kind = "analysis_result"

(***************************************************************************)
(* C4, as stated: when the classification call fails for a file whose      *)
(* analysis succeeded, the file's entry in the batch result is an error    *)
(* outcome.                                                                *)
(* Refuted: the failure is logged and the file's entry is an               *)
(* analysis_result entry.                                                  *)
(***************************************************************************)
C4_ClassificationFailureIsError ==
    (IterationOver /\ ClassificationFailed)
        => /\ Last(analysis_results).kind = "error"
           /\ Last(analysis_results).blob_name = handled.blob_name

(***************************************************************************)
(* C4, amended: when the classification call fails for a file whose        *)
(* analysis succeeded, the file's one entry in the batch result is an      *)
(* analysis_result entry that carries the analyzer's own result, nothing   *)
(* is extracted or stored for the file, and the remaining files are still  *)
(* processed.                                                              *)
(***************************************************************************)
C4_ClassificationFailureIsRawResult ==
    /\ (IterationOver /\ ClassificationFailed)
          => /\ Last(analysis_results) = ResultEntry(handled, jobs, RawResult(handled.markdown))
             /\ Cardinality(EntriesOf(handled)) = 1
             /\ \A i \in 1..Len(calls) :
                   calls[i][1] \in {"analyze_invoice", "get_analyzer_results", "sleep",
                                    "get_content_classification"}
    /\ LoopNeverAborts

\* the classification failed and another file is still to come
C4_Witness ==
    /\ IterationOver
    /\ ClassificationFailed
    /\ pc = "loop"
    /\ idx <= Len(files)
    /\ Last(analysis_results).kind = "analysis_result"

(***************************************************************************)
(* C5: after a tax-invoice page classified complete has been handled, the  *)
(* accumulated page texts and source references are empty, on every path   *)
(* out of the handling (merge, extraction or persistence failing too).     *)
(***************************************************************************)
CompletedTaxInvoice ==
    IterationOver /\ Call("get_content_classification", "TaxInvoice, complete") \in Range(calls)

C5_ClearedAfterCompletePage ==
    CompletedTaxInvoice
        => /\ accumulated_tax_invoice_content = << >>
           /\ accumulated_tax_invoice_urls = << >>

(***************************************************************************)
(* C6: no page is in the merged text of two calls of the tax-invoice       *)
(* extraction.                                                             *)
(***************************************************************************)
C6_FlushesShareNoPage ==
    \A i, j \in 1..Len(flushes) :
        i < j => Range(flushes[i].pages) \cap Range(flushes[j].pages) = {}

(***************************************************************************)
(* C7: the text sent to the tax-invoice extraction is the accumulated page *)
(* texts in arrival order joined by the page-break separator, and after    *)
(* the flush nothing of it is pending, so that the next page starts a unit *)
(* of size 1.                                                              *)
(***************************************************************************)
\* the join, built from the last page backwards
RECURSIVE JoinedFromEnd(_)
JoinedFromEnd(pages) ==
    IF Len(pages) = 1 THEN pages[1]
    ELSE JoinedFromEnd(SubSeq(pages, 1, Len(pages) - 1)) \o PAGE_BREAK \o pages[Len(pages)]

\* position in the sorted files of the file with this markdown
ArrivalOf(page) == CHOOSE i \in 1..Len(files) : files[i].markdown = page

C7_JoinedThenFresh ==
    /\ \A k \in 1..Len(flushes) :
          LET f == flushes[k]
          IN  /\ f.pages # << >>
              /\ f.text = JoinedFromEnd(f.pages)
              /\ Len(f.pages) = 2 => f.text = f.pages[1] \o PAGE_BREAK \o f.pages[2]
              /\ \A a, b \in 1..Len(f.pages) : a < b => ArrivalOf(f.pages[a]) < ArrivalOf(f.pages[b])
    /\ (flushes # << >> /\ pc # "extract_tax")
          => Range(Last(flushes).pages) \cap Range(accumulated_tax_invoice_content) = {}

(***************************************************************************)
(* C8: a tax-invoice unit of exactly one page, marked complete, is         *)
(* extracted from that page's text as it is (no separator), and its        *)
(* documentUrl is the page's own source reference: nothing is merged or    *)
(* uploaded.                                                               *)
(***************************************************************************)
C8_SinglePageUnit ==
    /\ (pc = "extract_tax" /\ Len(accumulated_tax_invoice_content) = 1)
          => /\ merged_content = file_info.markdown
             /\ Last(flushes).text = file_info.markdown
             /\ merged_pdf_url = SourceDoc(file_info.url)
             /\ CallsOf("_merge_pdfs_from_urls") = {}
    /\ (CompletedTaxInvoice
            /\ Last(analysis_results).analysis_result.shape = "tax_invoice"
            /\ Last(analysis_results).analysis_result.total_pages = 1)
          => /\ Last(analysis_results).blob_name = handled.blob_name
             /\ Last(analysis_results).analysis_result.documentUrl = SourceDoc(handled.url)
             /\ Last(flushes).text = handled.markdown
             /\ CallsOf("_merge_pdfs_from_urls") = {}

\* a one-page tax invoice was extracted
C8_Witness ==
    /\ CompletedTaxInvoice
    /\ Last(analysis_results).analysis_result.shape = "tax_invoice"
    /\ Last(analysis_results).analysis_result.total_pages = 1
    /\ Last(flushes).pages = << handled.markdown >>

(***************************************************************************)
(* C9: the files are processed in natural order of their names: of two     *)
(* names that differ only in one embedded integer the one with the smaller *)
(* integer comes first (p1, p2, p10), and names without digits come in     *)
(* lexicographic order.                                                    *)
(***************************************************************************)
RECURSIVE Pow10(_)
Pow10(k) == IF k = 0 THEN 1 ELSE 10 * Pow10(k - 1)

\* value of the decimal numeral s[from..to]
RECURSIVE Numeral(_, _, _)
Numeral(s, from, to) ==
    IF from > to THEN 0
    ELSE DigitVal(s[from]) * Pow10(to - from) + Numeral(s, from + 1, to)

AllDigits(s, from, to) == \A k \in from..to : s[k] \in Digits

\* the length of the run of digits of s that starts at i
DigitRunAt(s, i) ==
    CHOOSE m \in 0..(Len(s) - i + 1) :
        AllDigits(s, i, i + m - 1) /\ (i + m > Len(s) \/ s[i + m] \notin Digits)

\* a and b are one text around one integer, and a's integer is the smaller
SmallerEmbeddedInteger(a, b) ==
    \E i \in 1..Len(a) :
        /\ i <= Len(b)
        /\ a[i] \in Digits
        /\ b[i] \in Digits
        /\ i = 1 \/ a[i - 1] \notin Digits
        /\ SubSeq(a, 1, i - 1) = SubSeq(b, 1, i - 1)
        /\ LET m == DigitRunAt(a, i)
               n == DigitRunAt(b, i)
           IN  /\ SubSeq(a, i + m, Len(a)) = SubSeq(b, i + n, Len(b))
               /\ Numeral(a, i, i + m - 1) < Numeral(b, i, i + n - 1)

\* a is before b in the dictionary
LexicographicallyBefore(a, b) ==
    \E k \in 1..Len(b) :
        /\ k <= Len(a) + 1
        /\ SubSeq(a, 1, k - 1) = SubSeq(b, 1, k - 1)
        /\ k = Len(a) + 1 \/ Ord(a[k]) < Ord(b[k])

MustPrecede(a, b) ==
    \/ SmallerEmbeddedInteger(a, b)
    \/ /\ \A k \in 1..Len(a) : a[k] \notin Digits
       /\ \A k \in 1..Len(b) : b[k] \notin Digits
       /\ LexicographicallyBefore(a, b)

\* the pairs of names of the pool that natural order decides
NaturalPairs ==
    LET names == {f.blob_name : f \in FilePool}
        pairs == {<< a, b >> : a \in names, b \in names}
    IN  {p \in pairs : MustPrecede(p[1], p[2])}

NaturallyBefore(a, b) == << a, b >> \in NaturalPairs

C9_NaturalOrder ==
    /\ (pc = "returned" \/ (pc = "loop" /\ idx = 1))
          => \A i, j \in 1..Len(files) :
                 i < j => ~NaturallyBefore(files[j].blob_name, files[i].blob_name)
    /\ pc = "returned"
          => /\ submitted = AnalyzedNames(files, Len(files))
             /\ \A i, j \in 1..Len(submitted) :
                    i < j => ~NaturallyBefore(submitted[j], submitted[i])

\* p1.pdf, p2.pdf, p10.pdf were analyzed in this order
C9_Witness ==
    /\ pc = "returned"
    /\ submitted = << <<"p", "1", ".", "p", "d", "f">>,
                      <<"p", "2", ".", "p", "d", "f">>,
                      <<"p", "1", "0", ".", "p", "d", "f">> >>

(***************************************************************************)
(* C10: a tax-invoice page classified as not complete adds no entry to the *)
(* batch result, its text and source reference are appended to the         *)
(* accumulated lists, and the loop goes on with the next file.             *)
(***************************************************************************)
C10_IncompletePageAccumulates ==
    [][ (pc = "classify"
            /\ Last(calls') = Call("get_content_classification", "TaxInvoice, incomplete"))
          => /\ analysis_results' = analysis_results
             /\ accumulated_tax_invoice_content'
                    = Append(accumulated_tax_invoice_content, file_info.markdown)
             /\ accumulated_tax_invoice_urls'
                    = Append(accumulated_tax_invoice_urls, file_info.url)
             /\ idx' = idx + 1
             /\ pc' = "loop"
             /\ db' = db
             /\ flushes' = flushes ]_vars

\* a second incomplete page is pending and the result list is still empty
C10_Witness ==
    /\ IterationOver
    /\ Last(calls) = Call("get_content_classification", "TaxInvoice, incomplete")
    /\ Len(accumulated_tax_invoice_content) = 2
    /\ Last(accumulated_tax_invoice_content) = handled.markdown
    /\ analysis_results = << >>
    /\ idx <= Len(files)

(***************************************************************************)
(* C11: a file whose extension (the text after the last '.', compared      *)
(* without regard to case; empty when the name has no '.') is not one of   *)
(* pdf, jpg, jpeg, png, tiff, bmp is skipped: nothing is submitted for it, *)
(* it gets no outcome entry, and the accumulated pages are unchanged.      *)
(***************************************************************************)
AllowedExtensions == {"pdf", "jpg", "jpeg", "png", "tiff", "bmp"}

\* the allowed extensions, a character a cell
Spelled(word) ==
    CASE word = "pdf" -> <<"p", "d", "f">>
      [] word = "jpg" -> <<"j", "p", "g">>
      [] word = "jpeg" -> <<"j", "p", "e", "g">>
      [] word = "png" -> <<"p", "n", "g">>
      [] word = "tiff" -> <<"t", "i", "f", "f">>
      [] word = "bmp" -> <<"b", "m", "p">>

\* the capital of a small letter of the allowed extensions
Capital(c) ==
    CASE c = "b" -> "B" [] c = "d" -> "D" [] c = "e" -> "E" [] c = "f" -> "F"
      [] c = "g" -> "G" [] c = "i" -> "I" [] c = "j" -> "J" [] c = "m" -> "M"
      [] c = "n" -> "N" [] c = "p" -> "P" [] c = "t" -> "T"

\* a is the small letter b or its capital
SameLetter(a, b) == a = b \/ a = Capital(b)

\* name ends with '.' and word (in any case), and word holds no '.'
EndsWithExtension(name, word) ==
    LET w == Spelled(word)
        n == Len(name) - Len(w)
    IN  /\ n >= 1
        /\ name[n] = "."
        /\ \A k \in 1..Len(w) : SameLetter(name[n + k], w[k])

\* the names of the pool whose extension is not allowed
UnsupportedNames ==
    {f.blob_name : f \in {g \in FilePool :
                             \A word \in AllowedExtensions : ~EndsWithExtension(g.blob_name, word)}}

C11_UnsupportedExtensionSkipped ==
    [][ (pc = "loop" /\ idx <= Len(files) /\ files[idx].blob_name \in UnsupportedNames)
          => /\ idx' = idx + 1
             /\ pc' = "loop"
             /\ submitted' = submitted
             /\ jobs' = jobs
             /\ analysis_results' = analysis_results
             /\ accumulated_tax_invoice_content' = accumulated_tax_invoice_content
             /\ accumulated_tax_invoice_urls' = accumulated_tax_invoice_urls
             /\ db' = db
             /\ flushes' = flushes ]_vars

\* n.txt was skipped while a page was pending, and a later file was analyzed
C11_Witness ==
    /\ pc = "returned"
    /\ \E i \in 1..Len(files) :
          /\ files[i].blob_name = <<"n", ".", "t", "x", "t">>
          /\ i > 1
          /\ i < Len(files)
    /\ <<"n", ".", "t", "x", "t">> \notin Range(submitted)
    /\ Len(submitted) = 2
    /\ \A i \in 1..Len(analysis_results) :
          analysis_results[i].blob_name # <<"n", ".", "t", "x", "t">>
    /\ Len(analysis_results) = 1
    /\ Len(flushes) = 1
    /\ Len(flushes[1].pages) = 2

(***************************************************************************)
(* C12: the outcome list holds at most one outcome for a file, errors      *)
(* included, and the outcomes are in the order of the naturally ordered    *)
(* files they come from.                                                   *)
(***************************************************************************)
\* position in the sorted files of the file with this name
PlaceOf(name) == CHOOSE k \in 1..Len(files) : files[k].blob_name = name

C12_OneOutcomePerFileInOrder ==
    pc \in {"loop", "returned"}
        => /\ \A i \in 1..Len(analysis_results) :
                  /\ analysis_results[i].blob_name \in {files[k].blob_name : k \in 1..(idx - 1)}
                  /\ analysis_results[i].blob_name \in Range(submitted)
                  /\ analysis_results[i].kind \in {"error", "analysis_result"}
           /\ \A i, j \in 1..Len(analysis_results) :
                  i < j => /\ PlaceOf(analysis_results[i].blob_name)
                                < PlaceOf(analysis_results[j].blob_name)
                           /\ ~NaturallyBefore(analysis_results[j].blob_name,
                                               analysis_results[i].blob_name)

\* three files, the first without an outcome, then an error, then a result
C12_Witness ==
    /\ pc = "returned"
    /\ Len(files) = 3
    /\ Len(analysis_results) = 2
    /\ analysis_results[1].kind = "error"
    /\ analysis_results[1].blob_name = <<"p", "2", ".", "p", "d", "f">>
    /\ analysis_results[2].kind = "analysis_result"
    /\ analysis_results[2].blob_name = <<"p", "1", "0", ".", "p", "d", "f">>

(***************************************************************************)
(* C13: when merging the source files of a completed tax invoice of        *)
(* several pages fails, nothing is aborted: the extraction is still called *)
(* on the merged text, and the documentUrl of the resulting record is the  *)
(* source reference of the last page, the one that completed the invoice.  *)
(***************************************************************************)
MergeFailed == Call("_merge_pdfs_from_urls", "raised") \in Range(calls)

C13_MergeFailureFallsBack ==
    /\ \A i \in CallsOf("_merge_pdfs_from_urls") :
          calls[i][2] = "raised"
              => IF i = Len(calls)
                 THEN /\ pc = "extract_tax"
                      /\ merged_pdf_url = SourceDoc(file_info.url)
                      /\ Len(Last(flushes).pages) > 1
                      /\ Last(Last(flushes).pages) = file_info.markdown
                      /\ merged_content = JoinedFromEnd(Last(flushes).pages)
                 ELSE calls[i + 1][1] = "get_tax_invoice_extraction"
    /\ (IterationOver /\ MergeFailed
            /\ Call("get_tax_invoice_extraction", "record") \in Range(calls))
          => /\ Last(analysis_results).blob_name = handled.blob_name
             /\ Last(analysis_results).kind = "analysis_result"
             /\ Last(analysis_results).analysis_result.shape = "tax_invoice"
             /\ Last(analysis_results).analysis_result.documentUrl = SourceDoc(handled.url)
             /\ Last(analysis_results).analysis_result.total_pages > 1
    /\ MergeFailed => pc # "raised"

\* a two-page tax invoice whose merge failed was extracted
C13_Witness ==
    /\ IterationOver
    /\ MergeFailed
    /\ Last(analysis_results).analysis_result.shape = "tax_invoice"
    /\ Last(analysis_results).analysis_result.total_pages = 2
    /\ Last(analysis_results).analysis_result.documentUrl = SourceDoc(handled.url)
    /\ handled.url # files[idx - 2].url

(***************************************************************************)
(* C14: when create_document raises while a file's extracted record is     *)
(* being saved, process_documents_in_folder raises: it does not go on to   *)
(* return an outcome list in which the file is a successful extraction.    *)
(* Refuted by the code: the exception is logged inside the poller and the  *)
(* extracted record is returned as the file's analysis_result.             *)
(***************************************************************************)
PersistenceFailed == Call("create_document", "raised") \in Range(calls)

C14_PersistenceFailureIsFatal ==
    PersistenceFailed
        => /\ pc = "raised"
           /\ \A i \in 1..Len(analysis_results) :
                 analysis_results[i].blob_name = handled.blob_name
                     => analysis_results[i].kind = "error"

(***************************************************************************)
(* C15: every record extracted for a completed document, of any shape      *)
(* (invoice, tax invoice, GL transaction), carries the URN found in the    *)
(* page text when there is one, an identifier generated for it that no     *)
(* other record has, and a documentUrl that refers to its source file (the *)
(* merged file when the unit has several pages and the merge succeeded).   *)
(* Refuted by the code: a GL record gets a documentUrl only.               *)
(***************************************************************************)
\* the records extracted so far, with the file that completed each
ExtractedEntries ==
    {i \in 1..Len(analysis_results) :
        analysis_results[i].analysis_result.shape \in {"invoice", "tax_invoice", "gl"}}

\* s[from..to] is a number of ten digits or more that stands alone
StandsAloneNumber(s, from, to) ==
    /\ to - from + 1 >= 10
    /\ AllDigits(s, from, to)
    /\ from = 1 \/ ~IsWordChar(s[from - 1])
    /\ to = Len(s) \/ ~IsWordChar(s[to + 1])

\* u is the first such number of the text, or nothing when there is none
IsUrnOf(u, s) ==
    IF \E a, b \in 1..Len(s) : StandsAloneNumber(s, a, b)
    THEN \E a, b \in 1..Len(s) :
            /\ StandsAloneNumber(s, a, b)
            /\ u = SubSeq(s, a, b)
            /\ \A c, d \in 1..Len(s) : StandsAloneNumber(s, c, d) => a <= c
    ELSE u = NoUrn

C15_RecordsAreTagged ==
    /\ \A i \in ExtractedEntries :
          LET r == analysis_results[i].analysis_result
              f == files[PlaceOf(analysis_results[i].blob_name)]
          IN  /\ IsUrnOf(r.urn, f.markdown)
              /\ r.id >= 1
              /\ r.documentUrl # NoDoc
              /\ r.documentUrl.merged
                    => /\ r.shape = "tax_invoice"
                       /\ Len(r.documentUrl.sources) = r.total_pages
                       /\ r.total_pages > 1
                       /\ Last(r.documentUrl.sources) = f.url
              /\ ~r.documentUrl.merged => r.documentUrl = SourceDoc(f.url)
    /\ \A i, j \in ExtractedEntries :
          i # j => analysis_results[i].analysis_result.id # analysis_results[j].analysis_result.id

(***************************************************************************)
(* Vocabulary of the reconciliation properties.                            *)
(***************************************************************************)
\* the line item the logged searches were made for
LatestItem == tax_invoices[Last(embedded)[1]].taxInvoiceDetail[Last(embedded)[2]]

\* every search for the latest item returned
SearchesReturned ==
    /\ pc \in {"recon_item", "recon_done"}
    /\ searches # << >>
    /\ \A k \in 1..Len(searches) : ~searches[k].raised

\* all candidates the searches for the latest item returned
Candidates == UNION {Range(searches[k].items) : k \in 1..Len(searches)}

HasMatch(d) == d.matched_tax_reference # NoMatch

\* every line item of the URN's tax invoices
AllDetails ==
    UNION {Range(tax_invoices[i].taxInvoiceDetail) : i \in 1..Len(tax_invoices)}

\* the positions of the line items that have a description
NamedPositions ==
    UNION { {<< i, j >> : j \in {k \in 1..Len(tax_invoices[i].taxInvoiceDetail) :
                                    tax_invoices[i].taxInvoiceDetail[k].itemName # ""}}
            : i \in 1..Len(tax_invoices) }

\* the vendor identifiers of the URN's GL transactions
GLVendors == {gl_transactions[i].vendorId : i \in 1..Len(gl_transactions)} \ {NoVendor}

C17_NoVendorNoMatch ==
    /\ GLVendors = {}
          => /\ searches = << >>
             /\ \A d \in AllDetails : ~HasMatch(d)
    /\ \A k \in 1..Len(searches) : searches[k].vendorId # NoVendor
    /\ (SearchesReturned /\ Candidates = {}) => ~HasMatch(LatestItem)
    /\ pc = "recon_raised" => ti = 0 /\ embedded = << >>
    /\ pc = "recon_done"
          => /\ ti = Len(tax_invoices) + 1
             /\ embedding_repo => Range(embedded) = NamedPositions

\* the pass completed for a URN without GL transactions: three items, no match
C17_Witness ==
    /\ pc = "recon_done"
    /\ gl_transactions = << >>
    /\ Len(embedded) = 3
    /\ \A d \in AllDetails : ~HasMatch(d)

(***************************************************************************)
(* C18: when the embedding or a vector search fails for a line item, the   *)
(* item stays without a match, the pass goes on with the next line item    *)
(* (of the same tax invoice, then of the URN's other tax invoices) and     *)
(* does not raise: at its end every line item with a description has been  *)
(* taken up.                                                               *)
(***************************************************************************)
C18_ItemFailureIsNoMatch ==
    /\ [](/\ pc = "recon_raised" => ti = 0 /\ embedded = << >>
          /\ (searches # << >> /\ Last(searches).raised)
                => /\ pc \in {"recon_item", "recon_done"}
                   /\ ~HasMatch(LatestItem)
          /\ (pc = "recon_done" /\ embedding_repo) => Range(embedded) = NamedPositions)
    /\ [][ pc = "recon_embedding"
             => /\ pc' = "recon_item"
                /\ ti' = ti
                /\ di' = di + 1
                /\ (searches' = << >> \/ Last(searches').raised)
                       => tax_invoices' = tax_invoices ]_vars

\* vendor 1 has candidates, yet the first item has no match: its embedding or
\* search failed; the items after it, in both tax invoices, were matched
C18_Witness ==
    /\ pc = "recon_done"
    /\ GLVendors = {1}
    /\ Len(tax_invoices) = 2
    /\ tax_invoices[1].id = 1
    /\ tax_invoices[2].id = 2
    /\ ~HasMatch(tax_invoices[1].taxInvoiceDetail[1])
    /\ HasMatch(tax_invoices[1].taxInvoiceDetail[2])
    /\ HasMatch(tax_invoices[2].taxInvoiceDetail[2])

(***************************************************************************)
(* C19: the candidates for a line item come only from one top-3 search for *)
(* each distinct non-empty vendorId of the URN's GL transactions: at most  *)
(* 3 candidates of a vendor are considered, and the vendorId of an         *)
(* accepted match is one of those GL vendor identifiers.                   *)
(***************************************************************************)
C19_CandidatesOnlyFromGLVendors ==
    /\ \A k \in 1..Len(searches) :
          /\ searches[k].vendorId \in GLVendors
          /\ searches[k].top_k = 3
          /\ Len(searches[k].items) <= 3
          /\ \A c \in Range(searches[k].items) : c.vendorId = searches[k].vendorId
    /\ \A j, k \in 1..Len(searches) : j # k => searches[j].vendorId # searches[k].vendorId
    /\ SearchesReturned => {searches[k].vendorId : k \in 1..Len(searches)} = GLVendors
    /\ \A d \in AllDetails : HasMatch(d) => d.matched_tax_reference.vendorId \in GLVendors

\* three GL transactions of the vendors 1, 1 and 3: two searches, three of the
\* four entries of vendor 1 are candidates, and the match is an entry of vendor 1
C19_Witness ==
    /\ SearchesReturned
    /\ Len(gl_transactions) = 3
    /\ GLVendors = {1, 3}
    /\ Len(searches) = 2
    /\ \E k \in 1..2 : searches[k].vendorId = 1 /\ Len(searches[k].items) = 3
    /\ LatestItem.matched_tax_reference.vendorId = 1

(***************************************************************************)
(* C20: within a batch the files are handled one at a time, in natural     *)
(* order: the analysis of a file is submitted only when the handling of    *)
(* the file before it (submission, polling, classification, extraction or  *)
(* accumulation, recording of the outcome) is over, so that the pages      *)
(* reach the accumulated lists in natural order.                           *)
(***************************************************************************)
\* the poller of a file is running
Handling == pc \in {"poll", "sleep", "classify", "extract_invoice", "extract_tax", "extract_gl"}

\* position in the sorted files of the file with this URL
PlaceOfUrl(url) == CHOOSE k \in 1..Len(files) : files[k].url = url

C20_OneFileAtATime ==
    /\ [](/\ Handling
             => /\ submitted # << >>
                /\ Last(submitted) = files[idx].blob_name
                /\ Len(analysis_results) < Len(submitted)
                /\ request_id = jobs
          /\ \A a, b \in 1..Len(accumulated_tax_invoice_urls) :
                a < b => LET first == PlaceOfUrl(accumulated_tax_invoice_urls[a])
                             second == PlaceOfUrl(accumulated_tax_invoice_urls[b])
                         IN  /\ first < second
                             /\ ~NaturallyBefore(files[second].blob_name,
                                                 files[first].blob_name)
          /\ \A a \in 1..Len(accumulated_tax_invoice_urls) :
                PlaceOfUrl(accumulated_tax_invoice_urls[a]) <= idx)
    /\ [][ submitted' # submitted
             => /\ pc = "loop"
                /\ ~Handling
                /\ request_id = 0
                /\ submitted' = Append(submitted, files[idx].blob_name)
                /\ \A k \in 1..Len(submitted) : PlaceOf(submitted[k]) < idx ]_vars

\* the third file is being handled; the pages of the first two are pending,
\* in natural order
C20_Witness ==
    /\ pc = "classify"
    /\ idx = 3
    /\ accumulated_tax_invoice_urls = << "u1", "u2" >>
    /\ submitted = << <<"p", "1", ".", "p", "d", "f">>,
                      <<"p", "2", ".", "p", "d", "f">>,
                      <<"p", "1", "0", ".", "p", "d", "f">> >>

(***************************************************************************)
(* C25: in every reachable state of a batch the accumulated page texts and *)
(* the accumulated source references have the same length and the i-th     *)
(* reference is the source of the i-th text; the total_pages of a          *)
(* completed tax invoice is that common length when the invoice was        *)
(* completed.                                                              *)
(***************************************************************************)
\* the tax-invoice records among the outcomes
TaxInvoiceEntries ==
    {i \in 1..Len(analysis_results) : analysis_results[i].analysis_result.shape = "tax_invoice"}

\* the pages joined when the page of file f completed a tax invoice
PagesCompletedBy(f) ==
    {flushes[k].pages : k \in {j \in 1..Len(flushes) : Last(flushes[j].pages) = f.markdown}}

C25_ListsStayPaired ==
    /\ Len(accumulated_tax_invoice_content) = Len(accumulated_tax_invoice_urls)
    /\ \A i \in 1..Len(accumulated_tax_invoice_urls) :
          \E f \in Range(files) :
             /\ f.url = accumulated_tax_invoice_urls[i]
             /\ f.markdown = accumulated_tax_invoice_content[i]
    /\ \A i \in TaxInvoiceEntries :
          \A pages \in PagesCompletedBy(files[PlaceOf(analysis_results[i].blob_name)]) :
             analysis_results[i].analysis_result.total_pages = Len(pages)
    /\ pc = "extract_tax"
          => /\ Len(Last(flushes).pages) = Len(accumulated_tax_invoice_urls)
             /\ Last(flushes).pages = accumulated_tax_invoice_content

\* a tax invoice of two pages was completed while one page of the next is pending
C25_Witness ==
    /\ \E i \in TaxInvoiceEntries : analysis_results[i].analysis_result.total_pages = 2
    /\ Len(accumulated_tax_invoice_content) = 1
    /\ Len(accumulated_tax_invoice_urls) = 1

(***************************************************************************)
(* C26: when a batch ends while tax-invoice pages are pending (accumulated *)
(* with no completing page after them), the pages are dropped: they are in *)
(* no call of the tax-invoice extraction, in no document reference of a    *)
(* record returned or persisted, and the result holds neither a record nor *)
(* an error for them.                                                      *)
(***************************************************************************)
\* the files whose page completed a tax invoice
CompletingPlaces ==
    {k \in 1..Len(files) : \E j \in 1..Len(flushes) : Last(flushes[j].pages) = files[k].markdown}

\* positions in the accumulated lists of the pages no completing page followed
PendingPages ==
    {i \in 1..Len(accumulated_tax_invoice_urls) :
        \A k \in CompletingPlaces : k < PlaceOfUrl(accumulated_tax_invoice_urls[i])}

C26_PendingPagesAreDropped ==
    pc = "returned"
        => \A i \in PendingPages :
              LET f == files[PlaceOfUrl(accumulated_tax_invoice_urls[i])]
              IN  /\ \A j \in 1..Len(flushes) : f.markdown \notin Range(flushes[j].pages)
                  /\ EntriesOf(f) = {}
                  /\ \A j \in 1..Len(analysis_results) :
                        f.url \notin Range(analysis_results[j].analysis_result.documentUrl.sources)
                  /\ \A j \in 1..Len(db) : f.url \notin Range(db[j].document.documentUrl.sources)

\* a batch of three files returned with one tax invoice persisted and the last
\* two pages pending
C26_Witness ==
    /\ pc = "returned"
    /\ Len(files) = 3
    /\ Len(db) = 1
    /\ PendingPages = {1, 2}

(***************************************************************************)
(* C27: a file that ends in an error outcome (no job handle, poll timeout, *)
(* failure status, status query raising) leaves the accumulated page texts *)
(* and source references exactly as they were, so that pending pages are   *)
(* joined with the pages that arrive after the failed file and a completed *)
(* tax invoice can lack the failed page.                                   *)
(***************************************************************************)
\* this step appended an error outcome
ErrorAppended ==
    /\ Len(analysis_results') = Len(analysis_results) + 1
    /\ analysis_results'[Len(analysis_results')].kind = "error"

C27_ErrorKeepsAccumulation ==
    [][ ErrorAppended
          => /\ accumulated_tax_invoice_content' = accumulated_tax_invoice_content
             /\ accumulated_tax_invoice_urls' = accumulated_tax_invoice_urls
             /\ flushes' = flushes
             /\ db' = db ]_vars

\* p1.pdf is pending, p2.pdf timed out, and p10.pdf completed a tax invoice of
\* the pages of p1.pdf and p10.pdf
C27_Witness ==
    /\ pc = "extract_tax"
    /\ Len(analysis_results) = 1
    /\ analysis_results[1] = ErrorEntry(files[2], "Timeout")
    /\ accumulated_tax_invoice_urls = << "u1", "u10" >>
    /\ Last(flushes).pages = << files[1].markdown, files[3].markdown >>

(***************************************************************************)
(* C28: a document is written to the store only for an invoice or a tax    *)
(* invoice record, and only when a URN was found in the text of the page   *)
(* being handled; a record without a URN is returned as a successful       *)
(* outcome and not written; GL and Unknown pages cause no write.           *)
(***************************************************************************)
\* the outcome entries whose record has this identifier
EntriesWithId(id) ==
    {i \in 1..Len(analysis_results) : analysis_results[i].analysis_result.id = id}

\* every text of the pool with the number that is its URN, or with nothing
TextsWithUrn ==
    UNION { { << f.markdown, u >> :
                u \in {v \in {SubSeq(f.markdown, a, b) : a, b \in 1..Len(f.markdown)} \cup {NoUrn} :
                          IsUrnOf(v, f.markdown)} }
            : f \in FilePool }

C28_WrittenOnlyWithUrn ==
    /\ \A k \in 1..Len(db) :
          LET d == db[k].document
          IN  /\ d.shape \in {"invoice", "tax_invoice"}
              /\ db[k].container_id = (IF d.shape = "invoice" THEN "invoices" ELSE "tax-invoices")
              /\ d.urn # NoUrn
              /\ \E i \in EntriesWithId(d.id) :
                    /\ analysis_results[i].analysis_result = d
                    /\ << files[PlaceOf(analysis_results[i].blob_name)].markdown, d.urn >>
                          \in TextsWithUrn
    /\ \A i \in ExtractedEntries :
          LET r == analysis_results[i].analysis_result
          IN  r.urn = NoUrn \/ r.shape = "gl"
                 => /\ analysis_results[i].kind = "analysis_result"
                    /\ \A k \in 1..Len(db) : db[k].document # r
    /\ IterationOver /\ ~(\E c \in Range(calls) : c[1] \in {"get_invoice_extraction",
                                                           "get_tax_invoice_extraction"})
          => Call("create_document", "created") \notin Range(calls)

\* with a store configured: an invoice with a URN was written, a tax invoice
\* without a URN and a GL record were returned and not written
C28_Witness ==
    /\ azure_cosmos_repo
    /\ Len(db) = 1
    /\ db[1].document.shape = "invoice"
    /\ \E i, j \in ExtractedEntries :
          /\ analysis_results[i].analysis_result.shape = "tax_invoice"
          /\ analysis_results[i].analysis_result.urn = NoUrn
          /\ analysis_results[j].analysis_result.shape = "gl"

(***************************************************************************)
(* C23: a page classified Invoice or GeneralLedger is handled as complete  *)
(* whatever the completeness flag of the classification says: its          *)
(* extraction is awaited at once, and when the extraction returns the file *)
(* gets an outcome with the extracted record; the accumulated page texts   *)
(* and source references stay as they were, pending pages included.        *)
(***************************************************************************)
\* this step is the classification answering Invoice or GeneralLedger
ClassifiedStandalone ==
    /\ pc = "classify"
    /\ calls' # calls
    /\ calls'[Len(calls')] \in {Call("get_content_classification", "Invoice"),
                                Call("get_content_classification", "GeneralLedger")}

\* this step is get_invoice_extraction or get_gl_extraction returning
StandaloneExtracted ==
    /\ pc \in {"extract_invoice", "extract_gl"}
    /\ Call(ExtractionCall(pc), "record") \in Range(calls')

C23_StandalonePagesIgnoreTheFlag ==
    [][ /\ ClassifiedStandalone
           => /\ pc' \in {"extract_invoice", "extract_gl"}
              /\ analysis_results' = analysis_results
              /\ UNCHANGED acc
        /\ StandaloneExtracted
           => /\ UNCHANGED acc
              /\ flushes' = flushes
              /\ Len(analysis_results') = Len(analysis_results) + 1
              /\ LET e == analysis_results'[Len(analysis_results')]
                 IN  /\ e.kind = "analysis_result"
                     /\ e.blob_name = file_info.blob_name
                     /\ e.analysis_result.shape = (IF pc = "extract_invoice" THEN "invoice" ELSE "gl")
                     /\ e.analysis_result.documentUrl = SourceDoc(file_info.url) ]_vars

\* the extraction of a page classified GeneralLedger with the flag false is
\* awaited while a tax-invoice page is pending
C23_Witness ==
    /\ pc = "extract_gl"
    /\ ~is_document_complete
    /\ accumulated_tax_invoice_urls = << "u1" >>

(***************************************************************************)
(* C29: reconciliation_process writes nothing to the document store: the   *)
(* match results are attached to the documents the queries returned, in    *)
(* memory only.                                                            *)
(***************************************************************************)
C29_ReconciliationWritesNothing ==
    [][ /\ db' = db
        /\ uuid_count' = uuid_count
        /\ tax_invoices' # tax_invoices
              => /\ pc = "recon_embedding"
                 /\ HasMatch(tax_invoices'[ti].taxInvoiceDetail[di]) ]_vars

\* the pass is over, a detail got its match and the store was not written
C29_Witness ==
    /\ pc = "recon_done"
    /\ \E d \in AllDetails : HasMatch(d)
    /\ db = << >>

(***************************************************************************)
(* C24: process_message never starts reconciliation_process for a URN      *)
(* that has no stored tax invoice or no stored GL transaction.             *)
(* Refuted by the code: the pass is started for any URN found among the    *)
(* outcomes of the batch, whatever the store holds for it.                 *)
(***************************************************************************)
\* reconciliation_process was called and has not returned or raised
Reconciling == pc \in {"recon_start", "recon_item", "recon_embedding"}

C24_ReconciliationNeedsBothStored ==
    Reconciling => tax_invoices # << >> /\ gl_transactions # << >>

(***************************************************************************)
(* C30: process_message sets the status of the upload to "completed" only  *)
(* after process_documents_in_folder has returned and, when the outcomes   *)
(* hold a URN, after reconciliation_process has returned for the first URN *)
(* among the outcomes in order; when either raises, the status is left as  *)
(* it was and the error propagates; error outcomes of files, even of every *)
(* file, do not keep the status from being set.                            *)
(***************************************************************************)
\* u is the urn of the earliest outcome that has one
IsFirstUrn(u) ==
    \E i \in 1..Len(analysis_results) :
       /\ analysis_results[i].analysis_result.urn = u
       /\ u # NoUrn
       /\ \A j \in 1..(i - 1) : analysis_results[j].analysis_result.urn = NoUrn

C30_CompletedOnlyAfterBoth ==
    /\ [](/\ upload.status = "completed" => pc = "message_done" /\ upload.urn = message_urn
          /\ pc \in {"raised", "recon_raised", "message_raised", "cancelled"} => upload = NoUpload)
    /\ [][ /\ upload' # upload
              => /\ pc \in {"update", "recon_done"}
                 /\ upload' = [urn |-> message_urn, status |-> "completed"]
           /\ pc = "returned"
              => /\ pc' \in {"update", "recon_start"}
                 /\ pc' = "recon_start" <=> \E i \in 1..Len(analysis_results) :
                                               analysis_results[i].analysis_result.urn # NoUrn
                 /\ pc' = "recon_start" => IsFirstUrn(message_urn')
                 /\ pc' = "update" => message_urn' = NoUrn
           /\ pc' = "update" => pc = "returned"
           /\ pc \in {"raised", "recon_raised", "message_raised"} => pc' = "message_raised" ]_vars

\* the outcomes of g.PNG and p1.pdf held two URNs; the pass for the URN of
\* g.PNG, the first of the two, has returned and the status is set
C30_Witness ==
    /\ pc = "message_done"
    /\ upload = [urn |-> << "9", "8", "7", "6", "5", "4", "3", "2", "1", "0", "9" >>,
                 status |-> "completed"]
    /\ Len(db) = 2
    /\ db[2].document.urn = << "1", "2", "3", "4", "5", "6", "7", "8", "9", "0" >>
    /\ ti = 2

\* both files of the folder ended in an error outcome and the status is set
C30_WitnessAllFilesFailed ==
    /\ pc = "message_done"
    /\ upload.status = "completed"
    /\ Len(analysis_results) = 2
    /\ \A i \in 1..2 : analysis_results[i].kind = "error"

(***************************************************************************)
(* C22: when the task of a batch is cancelled while the poller waits       *)
(* between two status queries, no further status query is made for the     *)
(* job, no later file is submitted, and the pages accumulated for an       *)
(* incomplete tax invoice are discarded: no record is extracted from them  *)
(* or persisted, and no outcome is returned.                               *)
(***************************************************************************)
\* this step is the cancellation reaching the sleeping poller
CancelledWhileSleeping == pc = "sleep" /\ pc' # "poll"

C22_CancellationStopsTheBatch ==
    [][ /\ CancelledWhileSleeping
           => /\ pc' = "cancelled"
              /\ UNCHANGED << calls, submitted, jobs, flushes, db, analysis_results >>
        /\ pc = "cancelled"
           => /\ pc' = "cancelled"
              /\ UNCHANGED << calls, submitted, jobs, flushes, db, analysis_results, upload >> ]_vars

\* cancelled while waiting for the job of the third file, two pages pending
C22_Witness ==
    /\ pc = "cancelled"
    /\ idx = 3
    /\ Len(accumulated_tax_invoice_content) = 2
    /\ Last(calls) = Call("get_analyzer_results", "not ready")

(***************************************************************************)
(* C21: when two batches run as concurrent tasks on one ContentExtraction  *)
(* instance, interleaved at every await, no page text and no source        *)
(* reference of one batch is ever in the accumulated lists of the other    *)
(* batch or in a tax invoice the other batch merged.                       *)
(***************************************************************************)
\* the page texts and the source references of the folder of a batch
TextsOf(b) == {f.markdown : f \in Folder(b)}
SourcesOf(b) == {f.url : f \in Folder(b)}

C21_BatchesShareNoPage ==
    \A b \in Batches :
       /\ Range(batches[b].accumulated_tax_invoice_content) \subseteq TextsOf(b)
       /\ Range(batches[b].accumulated_tax_invoice_urls) \subseteq SourcesOf(b)
       /\ Range(batches[b].merged_content) \subseteq TextsOf(b)
       /\ Range(batches[b].merged_pdf_url.sources) \subseteq SourcesOf(b)
       /\ \A k \in 1..Len(batches[b].flushes) :
             /\ Range(batches[b].flushes[k].pages) \subseteq TextsOf(b)
             /\ Range(batches[b].flushes[k].documentUrl.sources) \subseteq SourcesOf(b)

\* batch A merged its two pages while the poller of batch B slept with a page
\* of B pending
C21_Witness ==
    /\ batches["A"].pc = "extract_tax"
    /\ Len(batches["A"].flushes) = 1
    /\ batches["A"].flushes[1].documentUrl = MergedDoc(<< "u1", "u2" >>)
    /\ batches["B"].pc = "sleep"
    /\ batches["B"].accumulated_tax_invoice_urls = << "ug" >>

====
